---- MODULE Spec2Model ----
(***************************************************************************)
(* National-Defense-Grid: the kinematic attack simulator                   *)
(* (src/components/AttackSimulator.tsx), the coverage scoring engine and   *)
(* the deployment mutation operator (src/unnamed/part_001) and the batch   *)
(* evaluator (src/unnamed/part_000).                                       *)
(*                                                                         *)
(* Numbers.  The program computes in IEEE doubles; the model computes in   *)
(* 32-bit integers with fixed scales:                                      *)
(*   - a coordinate is an integer number of 1e-7 degrees;                  *)
(*   - a speed is an integer number of 1e-4 degrees per second;            *)
(*   - a direction cosine or sine is an integer number of 1e-4;            *)
(*   - a distance is an integer number of metres;                          *)
(*   - a frame time is an integer number of milliseconds.                  *)
(* Every product is arranged to stay below 2^31.                           *)
(***************************************************************************)
EXTENDS Integers, Sequences, FiniteSets, TLC

(***************************************************************************)
(* Arithmetic helpers (Math.abs, Math.max, Math.min, Math.sqrt, ...).  A   *)
(* value that is used more than once is passed to an operator as a         *)
(* parameter.                                                              *)
(***************************************************************************)
Abs(x) == IF x < 0 THEN -x ELSE x

Sgn(x) == IF x < 0 THEN -1 ELSE IF x > 0 THEN 1 ELSE 0

Max2(a, b) == IF a >= b THEN a ELSE b

Min2(a, b) == IF a <= b THEN a ELSE b

\* ceil(a / b) for a >= 0, b > 0  (Math.ceil)
CeilDiv(a, b) == (a + b - 1) \div b

\* binary search for floor(sqrt(n)) between lo and hi, mid the middle
RECURSIVE ISqrtIter(_, _, _)
RECURSIVE ISqrtStep(_, _, _, _)
ISqrtStep(n, lo, hi, mid) ==
    IF mid * mid <= n THEN ISqrtIter(n, mid, hi) ELSE ISqrtIter(n, lo, mid - 1)

ISqrtIter(n, lo, hi) ==
    IF lo >= hi THEN lo ELSE ISqrtStep(n, lo, hi, (lo + hi + 1) \div 2)

\* floor(sqrt(n)) for 0 <= n < 2^31  (Math.sqrt)
ISqrt(n) == ISqrtIter(n, 0, 46340)

\* round(a * b / c) for a, b >= 0 and c > 0 with b * c < 2^31, without
\* overflowing: a = (a \div c) * c + (a % c).
MulDivNat(a, b, c) == (a \div c) * b + ((a % c) * b + c \div 2) \div c

\* round(a * b / c) for signed a, b
MulDiv(a, b, c) == Sgn(a) * Sgn(b) * MulDivNat(Abs(a), Abs(b), c)

(***************************************************************************)
(* Geometry.  A position is [lat, lng] in 1e-7 degrees (L.latLng).         *)
(***************************************************************************)
LatLng(lat, lng) == [lat |-> lat, lng |-> lng]

\* truncating division of a signed number (the model's scaling of a vector)
SDiv(a, k) == Sgn(a) * (Abs(a) \div k)

\* the factor that brings both components of a vector below `lim`
ScaleOf(dx, dy, lim) == Max2(Abs(dx), Abs(dy)) \div lim + 1

\* a latitude in 1e-4 radians
RadE4(lat) == ((Abs(lat) \div 10000) * 17453) \div 100000

\* 1 - x^2/2 + x^4/24 in 1e-4, for x2 = x^2 in 1e-4
CosSeries(x2) == 10000 - x2 \div 2 + (x2 * x2) \div 240000

\* Math.cos of a latitude, in 1e-4
CosLatE4(lat) == CosSeries((RadE4(lat) * RadE4(lat)) \div 10000)

\* the length in metres of the vector (dx, dy) of 1e-7 degrees divided by
\* k, dx shortened by the cosine of the latitude; 1e-7 degree is 0.0111195 m
DistScaled(dxk, dyk, k, cosE4) ==
    MulDivNat(ISqrt(((dxk * cosE4) \div 10000) * ((dxk * cosE4) \div 10000)
                    + dyk * dyk) * k,
              1112, 100000)

DistOf(dx, dy, k, cosE4) ==
    DistScaled(Abs(SDiv(dx, k)), Abs(SDiv(dy, k)), k, cosE4)

\* a.distanceTo(b) of Leaflet, in metres: the great-circle distance on the
\* sphere of radius 6371000 m, computed here by its small-angle form
\* R * sqrt(dlat^2 + (cos(lat) * dlng)^2)
distanceTo(a, b) ==
    DistOf(b.lng - a.lng, b.lat - a.lat,
           ScaleOf(b.lng - a.lng, b.lat - a.lat, 30000),
           CosLatE4((a.lat + b.lat) \div 2))

\* the direction [c, s] of the vector (dxk, dyk) of length h, in 1e-4
UnitOver(dxk, dyk, h) ==
    IF h = 0 THEN [c |-> 10000, s |-> 0]
    ELSE [c |-> MulDiv(dxk, 10000, h), s |-> MulDiv(dyk, 10000, h)]

UnitOf(dxk, dyk) == UnitOver(dxk, dyk, ISqrt(dxk * dxk + dyk * dyk))

\* [c, s] = (Math.cos(angle), Math.sin(angle)) in 1e-4 for
\* angle = Math.atan2(to.lat - from.lat, to.lng - from.lng); atan2(0, 0) = 0.
Bearing(from, to) ==
    UnitOf(SDiv(to.lng - from.lng,
                ScaleOf(to.lng - from.lng, to.lat - from.lat, 30000)),
           SDiv(to.lat - from.lat,
                ScaleOf(to.lng - from.lng, to.lat - from.lat, 30000)))

\* L.latLng(p.lat + Math.sin(angle) * len, p.lng + Math.cos(angle) * len)
Advance(p, dir, len) ==
    LatLng(p.lat + MulDiv(len, dir.s, 10000), p.lng + MulDiv(len, dir.c, 10000))

(***************************************************************************)
(* Entities (src/unnamed/part_002 DefenseSystem, AttackSimulator Threat).  *)
(*   DefenseSystem: [id, lat, lng, role, range (km), shotSpeed, isActive]  *)
(*     isActive is "true", "false" or "undefined" (the optional field).    *)
(*   Threat: [id, start, target, current, status, speed, interceptorId,    *)
(*            interceptorPos, predictedInterceptPoint, detectedByRadarId]  *)
(*     an absent id is NoId, an absent position the empty sequence and a   *)
(*     present one the one-element sequence <<p>>.                         *)
(***************************************************************************)
NoId == "undefined"

\* sys.isActive !== false
IsActive(sys) == sys.isActive # "false"

SysPos(sys) == LatLng(sys.lat, sys.lng)

\* BASE_THREAT_SPEED = 0.005 degrees per second, in 1e-4 degrees per second
BASE_THREAT_SPEED == 50

\* interceptor.shotSpeed || 0.22
DefaultShotSpeed == 2200

\* Math.min(1000, ...) sub-steps per tick
SubstepCap == 1000

\* killRadius = 900 + ..., impactThreshold = 600 + ... (metres)
KillBase == 900

ImpactBase == 600

\* [newLog, ...prev].slice(0, 100)
LogCap == 100

\* shotSpeed || 0.22
ShotSpeedOf(sys) == IF sys.shotSpeed = 0 THEN DefaultShotSpeed ELSE sys.shotSpeed

\* a faulty variant of Substeps: Math.floor in the place of Math.ceil
SubstepsFloor(currentSpeed) == Min2(SubstepCap, (currentSpeed * 5) \div 2)

\* substeps = Math.min(1000, Math.ceil(currentSpeed * 2.5))
Substeps(currentSpeed) == Min2(SubstepCap, CeilDiv(currentSpeed * 5, 2))

\* speed * dt in 1e-7 degrees, dt = (rawDeltaTime * currentSpeed) / substeps,
\* for a speed in 1e-4 degrees per second and rawDeltaTime in milliseconds
StepLen(speed, rawMs, currentSpeed) ==
    MulDivNat(speed * rawMs, currentSpeed, Substeps(currentSpeed))

(***************************************************************************)
(* calculateIntercept(threat, interceptor).  With Vt the threat's speed,   *)
(* Vi the interceptor's, v the threat's velocity and D = current - base:   *)
(*   a = Vt^2 - Vi^2, b = 2 (v . D), c = |D|^2, disc = b^2 - 4ac,          *)
(*   t = (-b - sqrt(disc)) / (2a), point = current + v t.                  *)
(* The model divides through by Vi^2: with r = Vt / Vi (rE4, in 1e-4), p   *)
(* the projection of D on the threat's bearing and q = |D|^2 - p^2,        *)
(*   dq = disc / (4 Vi^2) = |D|^2 - r^2 q,                                 *)
(*   Vt t = r * num / den,  num = -(r p + sqrt(dq)),  den = r^2 - 1,       *)
(* D being divided by k first.  The result is [kind, pos]: kind "point",   *)
(* or "null" (return null), or "NaN" when a = 0 and -b - sqrt(disc) = 0, a *)
(* division 0 / 0 whose NaN passes the t < 0 test.                         *)
(***************************************************************************)
NoIntercept(threat) == [kind |-> "null", pos |-> threat.current]

\* the point at distance disp * k along the threat's bearing
InterceptAt(threat, dir, k, disp) ==
    [kind |-> "point",
     pos  |-> LatLng(threat.current.lat + MulDiv(disp, dir.s, 10000) * k,
                     threat.current.lng + MulDiv(disp, dir.c, 10000) * k)]

\* the tests disc < 0 and t < 0 and the point
InterceptRoot(threat, Vt, Vi, dir, k, p, rE4, dq, num, den) ==
    IF Vt = Vi
    THEN IF p > 0 THEN NoIntercept(threat)
         ELSE [kind |-> "NaN", pos |-> threat.current]
    ELSE IF dq < 0 THEN NoIntercept(threat)
    ELSE IF den = 0 \/ num * Sgn(den) < 0 THEN NoIntercept(threat)
    ELSE InterceptAt(threat, dir, k, MulDiv(num, rE4, Abs(den)) * Sgn(den))

InterceptDisc(threat, Vt, Vi, dir, k, p, rE4, dq) ==
    InterceptRoot(threat, Vt, Vi, dir, k, p, rE4, dq,
                  -(MulDiv(p, rE4, 10000) + ISqrt(Max2(0, dq))),
                  (rE4 * rE4) \div 10000 - 10000)

InterceptRatio(threat, Vt, Vi, dir, k, c2, p, rE4) ==
    InterceptDisc(threat, Vt, Vi, dir, k, p, rE4,
                  c2 - MulDivNat(MulDivNat(Max2(0, c2 - p * p), rE4, 10000),
                                 rE4, 10000))

InterceptScaled(threat, Vt, Vi, dir, dxk, dyk, k) ==
    InterceptRatio(threat, Vt, Vi, dir, k, dxk * dxk + dyk * dyk,
                   (dir.c * dxk + dir.s * dyk) \div 10000,
                   MulDivNat(Vt, 10000, Vi))

InterceptAlong(threat, Vi, dir, dx, dy) ==
    InterceptScaled(threat, threat.speed, Vi, dir,
                    SDiv(dx, ScaleOf(dx, dy, 10000)),
                    SDiv(dy, ScaleOf(dx, dy, 10000)),
                    ScaleOf(dx, dy, 10000))

calculateIntercept(threat, interceptor) ==
    InterceptAlong(threat, ShotSpeedOf(interceptor),
                   Bearing(threat.start, threat.target),
                   threat.current.lng - interceptor.lng,
                   threat.current.lat - interceptor.lat)

(***************************************************************************)
(* updateSimulation: one sub-step of one threat (the body of the inner     *)
(* loop).  The result is [threat, logs, explosions, intercepted,           *)
(* impacted]: the record at nextThreats[i] after the iteration, the log    *)
(* entries addLog was called with (in call order), the explosions added    *)
(* and the increments of the counters.                                     *)
(***************************************************************************)
LogEntry(type, msg, id) == [type |-> type, msg |-> msg, id |-> id]

Explosion(kind, threat, pos) == [id |-> threat.id, pos |-> pos, type |-> kind]

\* systemsRef.current.filter(sys => sys.role === role && sys.isActive !== false)
ActiveOfRole(systems, role) ==
    SelectSeq(systems, LAMBDA sys : sys.role = role /\ IsActive(sys))

\* a faulty variant of Covering: no radar ever has the position in range
CoveringNone(units, pos) == << >>

\* activeRadars.find(r => nextPos.distanceTo(L.latLng(r.lat, r.lng)) / 1000 <= r.range):
\* the sequence of the radars that cover nextPos, in the order of the list
Covering(units, pos) ==
    SelectSeq(units, LAMBDA u : distanceTo(pos, SysPos(u)) <= u.range * 1000)

\* insert `u` into a list sorted by descending shotSpeed, after its equals
RECURSIVE InsertBySpeed(_, _)
InsertBySpeed(sorted, u) ==
    IF sorted = << >> THEN << u >>
    ELSE IF Head(sorted).shotSpeed < u.shotSpeed THEN << u >> \o sorted
    ELSE << Head(sorted) >> \o InsertBySpeed(Tail(sorted), u)

\* activeInterceptors.sort((a, b) => (b.shotSpeed || 0) - (a.shotSpeed || 0)),
\* a stable sort
RECURSIVE SortBySpeedDesc(_)
SortBySpeedDesc(units) ==
    IF units = << >> THEN << >>
    ELSE InsertBySpeed(SortBySpeedDesc(SubSeq(units, 1, Len(units) - 1)),
                       units[Len(units)])

\* a faulty variant of InReach: the distance from the base to the predicted
\* point is not compared with the range
InReachAnywhere(predicted, interceptor) == predicted.kind = "point"

\* predictedPos && predictedPos.distanceTo(base) / 1000 <= interceptor.range
InReach(predicted, interceptor) ==
    /\ predicted.kind = "point"
    /\ distanceTo(predicted.pos, SysPos(interceptor)) <= interceptor.range * 1000

Feasible(threat, interceptor) ==
    InReach(calculateIntercept(threat, interceptor), interceptor)

\* the for loop over bestCandidates: the first candidate whose predicted
\* point is in its reach, with that point; the empty sequence if none.  A
\* solve that ends in L.latLng(NaN, NaN) makes Leaflet's LatLng constructor
\* throw ("Invalid LatLng object"), which ends the loop and the updater:
\* `thrown`.
RECURSIVE FirstFeasible(_, _)
RECURSIVE TryCandidate(_, _, _)
TryCandidate(threat, candidates, predicted) ==
    IF predicted.kind = "NaN"
    THEN << [thrown |-> TRUE, interceptor |-> Head(candidates),
             predictedPos |-> predicted.pos] >>
    ELSE IF InReach(predicted, Head(candidates))
    THEN << [thrown |-> FALSE, interceptor |-> Head(candidates),
             predictedPos |-> predicted.pos] >>
    ELSE FirstFeasible(threat, Tail(candidates))

FirstFeasible(threat, candidates) ==
    IF candidates = << >> THEN << >>
    ELSE TryCandidate(threat, candidates,
                      calculateIntercept(threat, Head(candidates)))

\* lines 208-212: the binding to the chosen interceptor, if there is one
BindTo(threat, chosen) ==
    IF chosen = << >> THEN [threat |-> threat, logs |-> << >>, thrown |-> FALSE]
    ELSE IF chosen[1].thrown
    THEN [threat |-> threat, logs |-> << >>, thrown |-> TRUE]
    ELSE [threat |-> [threat EXCEPT
                        !.interceptorId = chosen[1].interceptor.id,
                        !.interceptorPos = << SysPos(chosen[1].interceptor) >>,
                        !.predictedInterceptPoint = << chosen[1].predictedPos >>],
          logs |-> << LogEntry("warning", "lock", threat.id) >>,
          thrown |-> FALSE]

\* nextThreats[i].detectedByRadarId = detectingRadar.id
Seen(threat, detecting) ==
    [threat EXCEPT !.detectedByRadarId = detecting[1].id]

\* a faulty variant of BindIfDetected: the test !threat.interceptorId is
\* left out, so a bound threat is bound again
BindAgainIfDetected(threat, systems, detecting) ==
    IF detecting = << >>
    THEN [threat |-> threat, logs |-> << >>, thrown |-> FALSE]
    ELSE BindTo(Seen(threat, detecting),
                FirstFeasible(threat,
                    SortBySpeedDesc(ActiveOfRole(systems, "INTERCEPTOR"))))

\* lines 197-219: if (detectingRadar) { ... if (!threat.interceptorId) ... }
BindIfDetected(threat, systems, detecting) ==
    IF detecting = << >>
    THEN [threat |-> threat, logs |-> << >>, thrown |-> FALSE]
    ELSE IF threat.interceptorId # NoId
    THEN [threat |-> Seen(threat, detecting), logs |-> << >>, thrown |-> FALSE]
    ELSE BindTo(Seen(threat, detecting),
                FirstFeasible(threat,
                    SortBySpeedDesc(ActiveOfRole(systems, "INTERCEPTOR"))))

\* lines 194-219: detection and interceptor assignment
DetectAndBind(threat, nextPos, systems) ==
    BindIfDetected(threat, systems,
                   Covering(ActiveOfRole(systems, "RADAR"), nextPos))

\* the unit systemsRef.current.find(sys => sys.id === threat.interceptorId)
\* returns, as a sequence of one unit or none
FindInterceptor(threat, systems) ==
    SelectSeq(systems, LAMBDA sys : sys.id = threat.interceptorId)

\* interceptor?.shotSpeed || 0.22
SpeedOfFound(found) ==
    IF found = << >> THEN DefaultShotSpeed ELSE ShotSpeedOf(found[1])

PursuitSpeed(threat, systems) == SpeedOfFound(FindInterceptor(threat, systems))

\* 900 + (currentSpeed > 50 ? currentSpeed * 2 : 0) + threat.speed * 20000
killRadius(threat, currentSpeed) ==
    KillBase + (IF currentSpeed > 50 THEN currentSpeed * 2 ELSE 0) + threat.speed * 2

\* 600 + (currentSpeed > 500 ? currentSpeed : 0)
impactThreshold(currentSpeed) ==
    ImpactBase + (IF currentSpeed > 500 THEN currentSpeed ELSE 0)

\* a faulty variant of ImpactOrMove: the impact is not logged
ImpactOrMoveSilent(threat, nextPos, currentSpeed, logs) ==
    IF distanceTo(nextPos, threat.target) < impactThreshold(currentSpeed)
    THEN [threat      |-> [threat EXCEPT !.status = "IMPACTED",
                                         !.current = threat.target],
          logs        |-> logs,
          explosions  |-> << Explosion("impact", threat, threat.target) >>,
          intercepted |-> 0,
          impacted    |-> 1,
          thrown      |-> FALSE]
    ELSE [threat      |-> [threat EXCEPT !.current = nextPos],
          logs        |-> logs,
          explosions  |-> << >>,
          intercepted |-> 0,
          impacted    |-> 0,
          thrown      |-> FALSE]

\* a faulty variant of ImpactOrMove: the impacted threat is left at its new
\* position instead of its target
ImpactOrMoveNoSnap(threat, nextPos, currentSpeed, logs) ==
    IF distanceTo(nextPos, threat.target) < impactThreshold(currentSpeed)
    THEN [threat      |-> [threat EXCEPT !.status = "IMPACTED",
                                         !.current = nextPos],
          logs        |-> logs \o << LogEntry("danger", "impact", threat.id) >>,
          explosions  |-> << Explosion("impact", threat, nextPos) >>,
          intercepted |-> 0,
          impacted    |-> 1,
          thrown      |-> FALSE]
    ELSE [threat      |-> [threat EXCEPT !.current = nextPos],
          logs        |-> logs,
          explosions  |-> << >>,
          intercepted |-> 0,
          impacted    |-> 0,
          thrown      |-> FALSE]

\* lines 245-256: the impact check and the move
ImpactOrMove(threat, nextPos, currentSpeed, logs) ==
    IF distanceTo(nextPos, threat.target) < impactThreshold(currentSpeed)
    THEN [threat      |-> [threat EXCEPT !.status = "IMPACTED",
                                         !.current = threat.target],
          logs        |-> logs \o << LogEntry("danger", "impact", threat.id) >>,
          explosions  |-> << Explosion("impact", threat, threat.target) >>,
          intercepted |-> 0,
          impacted    |-> 1,
          thrown      |-> FALSE]
    ELSE [threat      |-> [threat EXCEPT !.current = nextPos],
          logs        |-> logs,
          explosions  |-> << >>,
          intercepted |-> 0,
          impacted    |-> 0,
          thrown      |-> FALSE]

\* threat.predictedInterceptPoint || nextPos
targetGoal(threat, nextPos) ==
    IF threat.predictedInterceptPoint # << >>
    THEN threat.predictedInterceptPoint[1] ELSE nextPos

\* lines 226-229: the interceptor's next position
NextInterceptorPos(threat, nextPos, systems, rawMs, currentSpeed) ==
    Advance(threat.interceptorPos[1],
            Bearing(threat.interceptorPos[1], targetGoal(threat, nextPos)),
            StepLen(PursuitSpeed(threat, systems), rawMs, currentSpeed))

\* lines 231-243: the kill check, then ImpactOrMove
KillOrMove(threat, nextPos, currentSpeed, logs, nextIPos) ==
    IF distanceTo(nextIPos, nextPos) < killRadius(threat, currentSpeed)
    THEN [threat      |-> [threat EXCEPT !.status = "INTERCEPTED",
                                         !.current = nextPos],
          logs        |-> logs \o
                          << LogEntry("success", "intercept", threat.id) >>,
          explosions  |-> << Explosion("intercept", threat, nextPos) >>,
          intercepted |-> 1,
          impacted    |-> 0,
          thrown      |-> FALSE]
    ELSE ImpactOrMove([threat EXCEPT !.interceptorPos = << nextIPos >>],
                      nextPos, currentSpeed, logs)

\* lines 221-256: the pursuit of a bound threat, then the impact check
PursueAndResolve(threat, nextPos, systems, rawMs, currentSpeed, logs) ==
    IF threat.interceptorId # NoId /\ threat.interceptorPos # << >>
    THEN KillOrMove(threat, nextPos, currentSpeed, logs,
                    NextInterceptorPos(threat, nextPos, systems, rawMs,
                                       currentSpeed))
    ELSE ImpactOrMove(threat, nextPos, currentSpeed, logs)

\* the iteration once detection and binding have given `bound`; nothing
\* more of it runs when the solve has thrown
ResolveBound(bound, nextPos, systems, rawMs, currentSpeed) ==
    IF bound.thrown
    THEN [threat |-> bound.threat, logs |-> << >>, explosions |-> << >>,
          intercepted |-> 0, impacted |-> 0, thrown |-> TRUE]
    ELSE PursueAndResolve(bound.threat, nextPos, systems, rawMs, currentSpeed,
                          bound.logs)

SubstepAt(threat, nextPos, systems, rawMs, currentSpeed) ==
    ResolveBound(DetectAndBind(threat, nextPos, systems), nextPos, systems,
                 rawMs, currentSpeed)

\* the body of the inner loop for a MOVING threat (lines 187-256)
SubstepThreat(threat, systems, rawMs, currentSpeed) ==
    SubstepAt(threat,
              Advance(threat.current, Bearing(threat.start, threat.target),
                      StepLen(threat.speed, rawMs, currentSpeed)),
              systems, rawMs, currentSpeed)

(***************************************************************************)
(* The two loops of the setThreats updater (lines 183-258).  `acc` is      *)
(* [threats, logs, explosions, intercepted, impacted, thrown]: `thrown`    *)
(* once an iteration has thrown, after which nothing more is run.          *)
(***************************************************************************)
\* `acc` after the iteration for threat i gave `r`
Merged(acc, i, r) ==
    [threats     |-> [acc.threats EXCEPT ![i] = r.threat],
     logs        |-> acc.logs \o r.logs,
     explosions  |-> acc.explosions \o r.explosions,
     intercepted |-> acc.intercepted + r.intercepted,
     impacted    |-> acc.impacted + r.impacted,
     thrown      |-> r.thrown]

\* a faulty variant of InnerLoop: the test status !== 'MOVING' is left out
RECURSIVE InnerLoopNoSkip(_, _, _, _, _)
InnerLoopNoSkip(acc, i, systems, rawMs, currentSpeed) ==
    IF i > Len(acc.threats) \/ acc.thrown THEN acc
    ELSE InnerLoopNoSkip(
             Merged(acc, i,
                    SubstepThreat(acc.threats[i], systems, rawMs, currentSpeed)),
             i + 1, systems, rawMs, currentSpeed)

RECURSIVE InnerLoop(_, _, _, _, _)
InnerLoop(acc, i, systems, rawMs, currentSpeed) ==
    IF i > Len(acc.threats) \/ acc.thrown THEN acc
    ELSE IF acc.threats[i].status # "MOVING"
    THEN InnerLoop(acc, i + 1, systems, rawMs, currentSpeed)
    ELSE InnerLoop(
             Merged(acc, i,
                    SubstepThreat(acc.threats[i], systems, rawMs, currentSpeed)),
             i + 1, systems, rawMs, currentSpeed)

AnyMoving(ts) == \E i \in 1..Len(ts) : ts[i].status = "MOVING"

\* for (let s = 0; s < substeps; s++): the inner loop run `n` times in a
\* row (the recursion halves n, which keeps it shallow); a sub-step with no
\* MOVING threat changes nothing, so the loop is cut short there
RECURSIVE OuterLoop(_, _, _, _, _)
OuterLoop(acc, n, systems, rawMs, currentSpeed) ==
    IF n = 0 \/ acc.thrown \/ ~AnyMoving(acc.threats) THEN acc
    ELSE IF n = 1 THEN InnerLoop(acc, 1, systems, rawMs, currentSpeed)
    ELSE OuterLoop(OuterLoop(acc, n \div 2, systems, rawMs, currentSpeed),
                   n - n \div 2, systems, rawMs, currentSpeed)

\* the updater applied to prevThreats, with its side effects collected
UpdateThreats(prevThreats, systems, rawMs, currentSpeed) ==
    OuterLoop([threats |-> prevThreats, logs |-> << >>, explosions |-> << >>,
               intercepted |-> 0, impacted |-> 0, thrown |-> FALSE],
              Substeps(currentSpeed), systems, rawMs, currentSpeed)

(***************************************************************************)
(* The records of the previous snapshot.  nextThreats = [...prevThreats]   *)
(* copies the array, not the records: nextThreats[i] is the record of      *)
(* prevThreats[i] until a kill or an impact puts a new record in its       *)
(* place, and nextThreats[i].field = ... writes to that shared record.     *)
(***************************************************************************)
\* the shared record once the iteration that started from `t` has given
\* `r`: a kill or an impact writes status and current to a new record only
SharedAfter(t, r) ==
    IF r.status = "MOVING" THEN r
    ELSE [r EXCEPT !.status = "MOVING", !.current = t.current]

\* the record of prevThreats[i] after n sub-steps, `r` the result of the
\* first of them
RECURSIVE OldRecord(_, _, _, _, _)
OldRecordStep(t, r, n, systems, rawMs, currentSpeed) ==
    IF r.threat.status = "MOVING" /\ ~r.thrown
    THEN OldRecord(r.threat, n - 1, systems, rawMs, currentSpeed)
    ELSE SharedAfter(t, r.threat)

OldRecord(t, n, systems, rawMs, currentSpeed) ==
    IF n = 0 \/ t.status # "MOVING" THEN t
    ELSE OldRecordStep(t, SubstepThreat(t, systems, rawMs, currentSpeed), n,
                       systems, rawMs, currentSpeed)

\* prevThreats as it reads once the updater has returned
PrevAfterUpdate(prevThreats, systems, rawMs, currentSpeed) ==
    [i \in 1..Len(prevThreats) |->
        OldRecord(prevThreats[i], Substeps(currentSpeed), systems, rawMs,
                  currentSpeed)]

\* the updater run a second time on the same prevThreats
SecondUpdate(prevThreats, systems, rawMs, currentSpeed) ==
    UpdateThreats(PrevAfterUpdate(prevThreats, systems, rawMs, currentSpeed),
                  systems, rawMs, currentSpeed)

\* addLog called once per entry of `entries`, in order:
\* setLogs(prev => [newLog, ...prev].slice(0, 100))
RECURSIVE AddLogs(_, _)
AddLogs(logs, entries) ==
    IF entries = << >> THEN logs
    ELSE AddLogs(SubSeq(<< Head(entries) >> \o logs, 1,
                        Min2(LogCap, Len(logs) + 1)),
                 Tail(entries))

\* the Threat launchThreat creates (lines 96-105)
NewThreat(id, start, target, speed) ==
    [id |-> id, start |-> start, target |-> target, current |-> start,
     status |-> "MOVING", speed |-> speed, interceptorId |-> NoId,
     interceptorPos |-> << >>, predictedInterceptPoint |-> << >>,
     detectedByRadarId |-> NoId]

(***************************************************************************)
(* Coverage scoring (src/unnamed/part_001).  geoData is [present,          *)
(* features]: `present` FALSE is the null the scores are computed with     *)
(* before the boundary is loaded; a feature is [type, coordinates] as in   *)
(* GeoJSON, a vertex being << lng, lat >> in 1e-7 degrees.  A percentage   *)
(* is an integer number of 1e-3 percent.                                   *)
(***************************************************************************)
\* SL_BOUNDS = { minLat: 5.8, maxLat: 9.9, minLng: 79.5, maxLng: 82.0 }
SL_BOUNDS ==
    [minLat |-> 58000000, maxLat |-> 99000000,
     minLng |-> 795000000, maxLng |-> 820000000]

\* CITIES, the weights in tenths
CITIES ==
    << [name |-> "Colombo",      lat |-> 69271000, lng |-> 798612000, weight |-> 50],
       [name |-> "Kandy",        lat |-> 72906000, lng |-> 806337000, weight |-> 30],
       [name |-> "Galle",        lat |-> 60535000, lng |-> 802210000, weight |-> 20],
       [name |-> "Jaffna",       lat |-> 96615000, lng |-> 800104000, weight |-> 20],
       [name |-> "Trincomalee",  lat |-> 85873000, lng |-> 812152000, weight |-> 20],
       [name |-> "Anuradhapura", lat |-> 83114000, lng |-> 804037000, weight |-> 35],
       [name |-> "Batticaloa",   lat |-> 77102000, lng |-> 816924000, weight |-> 15],
       [name |-> "Matara",       lat |-> 59549000, lng |-> 805550000, weight |-> 25],
       [name |-> "Ratnapura",    lat |-> 66828000, lng |-> 803992000, weight |-> 15],
       [name |-> "Kurunegala",   lat |-> 74818000, lng |-> 803609000, weight |-> 15],
       [name |-> "Pottuvil",     lat |-> 68724000, lng |-> 818210000, weight |-> 12] >>

\* the number of sampling points: the program's SAMPLING_POINTS_COUNT is
\* 3600 (a 60 x 60 grid); the exploration samples a coarser grid
SamplingPoints == 36

\* a coordinate in 1e-3 degrees, the unit of the crossing test
Milli(v) == v \div 10000

\* the `intersect` test of checkPolygon for the edge from vertex pj to pi:
\* x < (xj - xi) * (y - yi) / (yj - yi) + xi, multiplied through by yj - yi
EdgeCrosses(x, y, pi, pj) ==
    LET xi == Milli(pi[1])
        yi == Milli(pi[2])
        xj == Milli(pj[1])
        yj == Milli(pj[2])
    IN  /\ (yi > y) # (yj > y)
        /\ IF yj > yi
           THEN (x - xi) * (yj - yi) < (xj - xi) * (y - yi)
           ELSE (x - xi) * (yj - yi) > (xj - xi) * (y - yi)

\* the for loop of checkPolygon from index i (1-based) with j its predecessor
RECURSIVE checkPolygonLoop(_, _, _, _, _, _)
checkPolygonLoop(x, y, polygon, i, j, isInside) ==
    IF i > Len(polygon) THEN isInside
    ELSE checkPolygonLoop(x, y, polygon, i + 1, i,
             IF EdgeCrosses(x, y, polygon[i], polygon[j]) THEN ~isInside
             ELSE isInside)

checkPolygon(x, y, polygon) ==
    checkPolygonLoop(x, y, polygon, 1, Len(polygon), FALSE)

\* the inner loop over the polygons of a MultiPolygon
RECURSIVE insideMulti(_, _, _, _)
insideMulti(x, y, polys, inside) ==
    IF polys = << >> THEN inside
    ELSE insideMulti(x, y, Tail(polys),
             IF checkPolygon(x, y, Head(polys)[1]) THEN ~inside ELSE inside)

\* the loop over geoData.features
RECURSIVE insideFeatures(_, _, _, _)
insideFeatures(x, y, features, inside) ==
    IF features = << >> THEN inside
    ELSE LET geometry == Head(features)
         IN  insideFeatures(x, y, Tail(features),
                 IF geometry.type = "Polygon"
                 THEN IF checkPolygon(x, y, geometry.coordinates[1])
                      THEN ~inside ELSE inside
                 ELSE IF geometry.type = "MultiPolygon"
                 THEN insideMulti(x, y, geometry.coordinates, inside)
                 ELSE inside)

isInsideCountry(lat, lng, geoData) ==
    IF ~geoData.present THEN TRUE
    ELSE insideFeatures(Milli(lng), Milli(lat), geoData.features, FALSE)

\* a faulty variant of hitsAtPoint: only the first unit of the list is tried
hitsAtHead(point, units) ==
    IF units = << >> THEN 0
    ELSE IF distanceTo(point, SysPos(Head(units))) <= Head(units).range * 1000
    THEN 1
    ELSE 0

\* the for loop with `break` over the radars (or the interceptors): 1 at the
\* first unit that has the point within its range, 0 when the list ends
RECURSIVE hitsAtPoint(_, _)
hitsAtPoint(point, units) ==
    IF units = << >> THEN 0
    ELSE IF distanceTo(point, SysPos(Head(units))) <= Head(units).range * 1000
    THEN 1
    ELSE hitsAtPoint(point, Tail(units))

\* Math.floor(Math.sqrt(SAMPLING_POINTS_COUNT))
gridSize == ISqrt(SamplingPoints)

latStep == (SL_BOUNDS.maxLat - SL_BOUNDS.minLat) \div gridSize

lngStep == (SL_BOUNDS.maxLng - SL_BOUNDS.minLng) \div gridSize

\* the sample point of row i, column j (0-based)
GridPoint(i, j) ==
    LatLng(SL_BOUNDS.minLat + i * latStep + latStep \div 2,
           SL_BOUNDS.minLng + j * lngStep + lngStep \div 2)

NoTally ==
    [spatialLandCoveredCount |-> 0, radarLandHitsCount |-> 0,
     attackLandHitsCount |-> 0, landPointsTotal |-> 0, seaPointsTotal |-> 0,
     combinedSeaHits |-> 0]

\* the body of the two grid loops for one sample point (lines 199-231)
TallyPoint(tally, point, radars, interceptors, geoData) ==
    LET isLand            == isInsideCountry(point.lat, point.lng, geoData)
        radarHitsAtPoint  == hitsAtPoint(point, radars)
        attackHitsAtPoint == hitsAtPoint(point, interceptors)
        isCombinedShield  == radarHitsAtPoint > 0 /\ attackHitsAtPoint > 0
        one(b)            == IF b THEN 1 ELSE 0
    IN  IF isLand
        THEN [tally EXCEPT
                !.landPointsTotal = @ + 1,
                !.spatialLandCoveredCount = @ + one(isCombinedShield),
                !.radarLandHitsCount = @ + one(radarHitsAtPoint > 0),
                !.attackLandHitsCount = @ + one(attackHitsAtPoint > 0)]
        ELSE [tally EXCEPT
                !.seaPointsTotal = @ + 1,
                !.combinedSeaHits = @ + one(isCombinedShield)]

\* the two grid loops, point k = i * gridSize + j
RECURSIVE TallyGrid(_, _, _, _, _)
TallyGrid(tally, k, radars, interceptors, geoData) ==
    IF k >= gridSize * gridSize THEN tally
    ELSE TallyGrid(TallyPoint(tally, GridPoint(k \div gridSize, k % gridSize),
                              radars, interceptors, geoData),
                   k + 1, radars, interceptors, geoData)

\* radars.some(...) && interceptors.some(...) for a city
CityCovered(city, radars, interceptors) ==
    LET cityPt == LatLng(city.lat, city.lng)
        within(units) ==
            \E n \in 1..Len(units) :
                distanceTo(cityPt, SysPos(units[n])) <= units[n].range * 1000
    IN  within(radars) /\ within(interceptors)

\* CITIES.forEach: [combinedCityScore, totalCityWeight]
RECURSIVE TallyCities(_, _, _, _)
TallyCities(acc, cities, radars, interceptors) ==
    IF cities = << >> THEN acc
    ELSE TallyCities(
             [combinedCityScore |-> acc.combinedCityScore +
                  (IF CityCovered(Head(cities), radars, interceptors)
                   THEN Head(cities).weight ELSE 0),
              totalCityWeight |-> acc.totalCityWeight + Head(cities).weight],
             Tail(cities), radars, interceptors)

\* a faulty variant of Percent: an empty denominator counts as full cover
PercentVacuous(count, total) ==
    IF total > 0 THEN (count * 100000) \div total ELSE 100000

\* total > 0 ? (count / total) * 100 : 0
Percent(count, total) == IF total > 0 THEN (count * 100000) \div total ELSE 0

NoScores ==
    [combinedLand |-> 0, combinedCities |-> 0, combinedSea |-> 0,
     radarLand |-> 0, attackLand |-> 0]

\* lines 181-251: the sampling of the grid and the cities and the five
\* percentages
ScoresOverGrid(defenseSystems, geoData) ==
    LET radars       == ActiveOfRole(defenseSystems, "RADAR")
        interceptors == ActiveOfRole(defenseSystems, "INTERCEPTOR")
        g == TallyGrid(NoTally, 0, radars, interceptors, geoData)
        c == TallyCities([combinedCityScore |-> 0, totalCityWeight |-> 0],
                         CITIES, radars, interceptors)
    IN  [combinedLand   |-> Percent(g.spatialLandCoveredCount, g.landPointsTotal),
         combinedCities |-> Percent(c.combinedCityScore, c.totalCityWeight),
         combinedSea    |-> Percent(g.combinedSeaHits, g.seaPointsTotal),
         radarLand      |-> Percent(g.radarLandHitsCount, g.landPointsTotal),
         attackLand     |-> Percent(g.attackLandHitsCount, g.landPointsTotal)]

\* if (!geoData) return { combinedLand: 0, ... } comes first (line 179)
calculateScores(defenseSystems, geoData) ==
    IF ~geoData.present THEN NoScores
    ELSE ScoresOverGrid(defenseSystems, geoData)

(***************************************************************************)
(* Deployment search (src/unnamed/part_001): layouts are generated by      *)
(* generateRandomDeploymentWithCounts and perturbed by mutateDeployment.   *)
(* A Math.random() value is an integer number of thousandths.  The loop    *)
(* that calls the two functions is outside the source at hand: any layout  *)
(* generated may be mutated with any flags, and any layout returned by     *)
(* mutateDeployment may be adopted as the deployment.                      *)
(***************************************************************************)
STRATEGIC_LOCATIONS ==
    << [name |-> "PIDURUTHALAGALA",   lat |-> 70001000, lng |-> 807725000],
       [name |-> "TRINCO_COAST",      lat |-> 85873000, lng |-> 812152000],
       [name |-> "HAMBANTHOTA_COAST", lat |-> 61246000, lng |-> 811245000],
       [name |-> "POTTUVIL_COAST",    lat |-> 68724000, lng |-> 818210000],
       [name |-> "DONDRA_HEAD",       lat |-> 59234000, lng |-> 805873000] >>

\* attempts of the placement loop explored, of the program's 50
MaxAttempts == 2

\* layouts adopted in a search, the generated one included
MaxGenerations == 2

\* Math.random() * (hi - lo) + lo
Uniform(r, lo, hi) == r * ((hi - lo) \div 1000) + lo

\* base + (Math.random() - 0.5) * width
Around(base, r, width) == base + (r - 500) * (width \div 1000)

\* Math.max(lo, Math.min(hi, v))
Clamp(lo, hi, v) == Max2(lo, Min2(hi, v))

\* lines 315-329: the position one attempt of the placement loop draws
Candidate(placementStrategy, d) ==
    IF d.roll > 700 /\ placementStrategy # "outside"
    THEN LatLng(Around(STRATEGIC_LOCATIONS[d.pick].lat, d.a, 4000000),
                Around(STRATEGIC_LOCATIONS[d.pick].lng, d.b, 4000000))
    ELSE IF d.roll > 400 /\ placementStrategy # "outside"
    THEN LatLng(Around(CITIES[d.pick].lat, d.a, 6000000),
                Around(CITIES[d.pick].lng, d.b, 6000000))
    ELSE LatLng(Uniform(d.a, SL_BOUNDS.minLat, SL_BOUNDS.maxLat),
                Uniform(d.b, SL_BOUNDS.minLng, SL_BOUNDS.maxLng))

\* lines 331-334
ValidPlace(placementStrategy, pos, geo) ==
    IF placementStrategy = "inside" THEN isInsideCountry(pos.lat, pos.lng, geo)
    ELSE IF placementStrategy = "outside"
    THEN ~isInsideCountry(pos.lat, pos.lng, geo)
    ELSE TRUE

\* while (!valid && attempts < MaxAttempts): lat and lng are those of the
\* last attempt made, valid or not
RECURSIVE PlacementLoop(_, _, _, _, _, _)
PlacementLoop(placementStrategy, geo, draws, attempts, valid, pos) ==
    IF valid \/ attempts >= MaxAttempts THEN pos
    ELSE PlacementLoop(placementStrategy, geo, draws, attempts + 1,
                       ValidPlace(placementStrategy,
                                  Candidate(placementStrategy, draws[attempts + 1]),
                                  geo),
                       Candidate(placementStrategy, draws[attempts + 1]))

\* lines 337-344: the unit pushed, its fields those of the template
GeneratedUnit(id, template, pos) ==
    [id |-> id, lat |-> pos.lat, lng |-> pos.lng, role |-> template.role,
     range |-> template.range, shotSpeed |-> template.shotSpeed,
     isActive |-> "true"]

\* the templates YLC-18 and Barak-8 of SYSTEM_TEMPLATES
GenTemplates ==
    << [category |-> "YLC-18", role |-> "RADAR", range |-> 250, shotSpeed |-> 0],
       [category |-> "Barak-8", role |-> "INTERCEPTOR", range |-> 150,
        shotSpeed |-> 2500] >>

\* generateRandomDeploymentWithCounts({'YLC-18': 1, 'Barak-8': 1},
\* placementStrategy, geoData, SYSTEM_TEMPLATES), draws[n] the draws of the
\* attempts for unit n; generateId() gives ids that differ
generateRandomDeploymentWithCounts(placementStrategy, geo, draws) ==
    [n \in 1..Len(GenTemplates) |->
        GeneratedUnit(IF n = 1 THEN "G1" ELSE "G2", GenTemplates[n],
                      PlacementLoop(placementStrategy, geo, draws[n], 0, FALSE,
                                    LatLng(0, 0)))]

\* forceHighEntropy ? 0.45 : 0.25
mutationChance(forceHighEntropy) == IF forceHighEntropy THEN 450 ELSE 250

\* sys.role === 'RADAR' ? 1.5 : 0.45
moveAmount(sys) == IF sys.role = "RADAR" THEN 15000000 ELSE 4500000

\* forceHighEntropy ? 2.5 : 1.0, in tenths
entropyMultiplier(forceHighEntropy) == IF forceHighEntropy THEN 25 ELSE 10

\* (Math.random() - 0.5) * moveAmount * entropyMultiplier
Drift(r, sys, forceHighEntropy) ==
    ((r - 500) * (moveAmount(sys) \div 1000)
        * entropyMultiplier(forceHighEntropy)) \div 10

\* a faulty variant of KeepsRadar: the radar-secured flag is not read
KeepsRadarNever(sys, radarSecured, forceHighEntropy) == FALSE

\* line 270: !forceHighEntropy && radarSecured && sys.role === 'RADAR'
KeepsRadar(sys, radarSecured, forceHighEntropy) ==
    ~forceHighEntropy /\ radarSecured /\ sys.role = "RADAR"

\* lines 286-292: the unit moved by the two drifts and clamped to the box
Moved(sys, forceHighEntropy, d) ==
    [sys EXCEPT
       !.lat = Clamp(SL_BOUNDS.minLat, SL_BOUNDS.maxLat,
                     sys.lat + Drift(d.a, sys, forceHighEntropy)),
       !.lng = Clamp(SL_BOUNDS.minLng, SL_BOUNDS.maxLng,
                     sys.lng + Drift(d.b, sys, forceHighEntropy))]

\* lines 276-280: the unit sent to a uniform position of the box
Relocated(sys, d) ==
    [sys EXCEPT
       !.lat = Uniform(d.a, SL_BOUNDS.minLat, SL_BOUNDS.maxLat),
       !.lng = Uniform(d.b, SL_BOUNDS.minLng, SL_BOUNDS.maxLng)]

\* a faulty variant of mutateUnit: a unit that is moved is built anew and
\* comes out switched on
mutateUnitSwitchedOn(sys, radarSecured, forceHighEntropy, d) ==
    IF KeepsRadar(sys, radarSecured, forceHighEntropy) THEN sys
    ELSE IF d.roll > mutationChance(forceHighEntropy) THEN sys
    ELSE IF forceHighEntropy /\ d.jump < 80 THEN Relocated(sys, d)
    ELSE [Moved(sys, forceHighEntropy, d) EXCEPT !.isActive = "true"]

\* the callback of baseSystems.map (lines 269-293); d holds the draws
\* Math.random() would give: roll against mutationChance, jump against
\* 0.08, a for the latitude and b for the longitude.  { ...sys } is a unit
\* with the fields of sys
mutateUnit(sys, radarSecured, forceHighEntropy, d) ==
    IF KeepsRadar(sys, radarSecured, forceHighEntropy) THEN sys
    ELSE IF d.roll > mutationChance(forceHighEntropy) THEN sys
    ELSE IF forceHighEntropy /\ d.jump < 80 THEN Relocated(sys, d)
    ELSE Moved(sys, forceHighEntropy, d)

\* mutateDeployment(baseSystems, radarSecured, geoData, placementStrategy,
\* forceHighEntropy); geoData and placementStrategy are not read
mutateDeployment(baseSystems, radarSecured, forceHighEntropy, draws) ==
    [n \in 1..Len(baseSystems) |->
        mutateUnit(baseSystems[n], radarSecured, forceHighEntropy, draws[n])]


(***************************************************************************)
(* The batch evaluator (src/unnamed/part_000, the StressTest component).   *)
(* A trial's random draws are [side, along, city]: the side of the         *)
(* bounding box the missile starts from (Math.floor(Math.random() * 4)),   *)
(* the Math.random() along that side in thousandths and the index of the   *)
(* target city.  A speedMod is an integer number of tenths.                *)
(***************************************************************************)
MISSILE_TYPES ==
    << [id |-> "drone",      speedMod |-> 6],
       [id |-> "cruise",     speedMod |-> 15],
       [id |-> "ballistic",  speedMod |-> 40],
       [id |-> "hypersonic", speedMod |-> 120] >>

\* interceptor.shotSpeed || 0.25
BatchDefaultShotSpeed == 2500

\* the 0.005 of the missile's speed 0.005 * speedMod
BatchThreatSpeed == 50

\* one degree, the distance of a start outside the bounding box
OneDegree == 10000000

Hyp(dx, dy) == ISqrt(dx * dx + dy * dy)

\* Leaflet's closest point on the segment from (ax, ay) along (dx, dy): its
\* end when t = num / den > 1, the foot of the perpendicular when
\* 0 < t <= 1 (its distance is |cross product| / length), its start
\* otherwise
SegClosest(px, py, ax, ay, dx, dy, num, den) ==
    IF den > 0 /\ num > den THEN Hyp(px - (ax + dx), py - (ay + dy))
    ELSE IF den > 0 /\ num > 0
    THEN Abs((px - ax) * dy - (py - ay) * dx) \div ISqrt(den)
    ELSE Hyp(px - ax, py - ay)

SegAlong(px, py, ax, ay, dx, dy) ==
    SegClosest(px, py, ax, ay, dx, dy,
               (px - ax) * dx + (py - ay) * dy, dx * dx + dy * dy)

\* L.LineUtil.pointToSegmentDistance(L.point(p.lng, p.lat), L.point(a.lng,
\* a.lat), L.point(b.lng, b.lat)): a planar distance in degrees, here in
\* 1e-3 degrees
pointToSegmentDistance(p, a, b) ==
    SegAlong(Milli(p.lng), Milli(p.lat), Milli(a.lng), Milli(a.lat),
             Milli(b.lng) - Milli(a.lng), Milli(b.lat) - Milli(a.lat))

\* lines 73-78: the start of the path
TrialStart(draw) ==
    IF draw.side = 0
    THEN LatLng(SL_BOUNDS.maxLat + OneDegree,
                SL_BOUNDS.minLng
                  + draw.along * ((SL_BOUNDS.maxLng - SL_BOUNDS.minLng) \div 1000))
    ELSE IF draw.side = 1
    THEN LatLng(SL_BOUNDS.minLat - OneDegree,
                SL_BOUNDS.minLng
                  + draw.along * ((SL_BOUNDS.maxLng - SL_BOUNDS.minLng) \div 1000))
    ELSE IF draw.side = 2
    THEN LatLng(SL_BOUNDS.minLat
                  + draw.along * ((SL_BOUNDS.maxLat - SL_BOUNDS.minLat) \div 1000),
                SL_BOUNDS.maxLng + OneDegree)
    ELSE LatLng(SL_BOUNDS.minLat
                  + draw.along * ((SL_BOUNDS.maxLat - SL_BOUNDS.minLat) \div 1000),
                SL_BOUNDS.minLng - OneDegree)

\* targetCity = CITIES[Math.floor(Math.random() * CITIES.length)]
TrialTarget(draw) == LatLng(CITIES[draw.city].lat, CITIES[draw.city].lng)

\* dist * 111 <= unit.range, the distance from the unit to the path
InPathRange(unit, start, target) ==
    pointToSegmentDistance(SysPos(unit), start, target) * 111
        <= unit.range * 1000

\* the loop with break over activeRadars (lines 85-100)
PathDetected(activeRadars, start, target) ==
    \E n \in 1..Len(activeRadars) : InPathRange(activeRadars[n], start, target)

\* speedAdvantage > 0.8 for
\* speedAdvantage = (shotSpeed || 0.25) / (0.005 * speedMod)
FastEnough(interceptor, missile) ==
    (IF interceptor.shotSpeed = 0 THEN BatchDefaultShotSpeed
     ELSE interceptor.shotSpeed) * 100
        > 8 * (BatchThreatSpeed * missile.speedMod)

\* the loop with break over activeInterceptors (lines 104-121)
PathHit(activeInterceptors, start, target, missile) ==
    \E n \in 1..Len(activeInterceptors) :
        /\ InPathRange(activeInterceptors[n], start, target)
        /\ FastEnough(activeInterceptors[n], missile)

NoBatchTally ==
    [totalLaunched |-> 0, interceptedCount |-> 0, impactedCount |-> 0,
     detectedCount |-> 0, batchLogs |-> << >>]

\* batchLogs.push(...) when totalLaunched is a multiple of `every`
PushIf(batchLogs, totalLaunched, every, entry) ==
    IF totalLaunched % every = 0 THEN Append(batchLogs, entry) ELSE batchLogs

\* a faulty variant of TallyOutcome: an undetected trial is not counted as
\* an impact
TallyOutcomeDropsUndetected(tally, r, city, detected, hit) ==
    IF detected /\ hit
    THEN [tally EXCEPT
            !.detectedCount = @ + 1,
            !.interceptedCount = @ + 1,
            !.batchLogs = PushIf(@, tally.totalLaunched, 100,
                                 [round |-> r + 1, kind |-> "intercepted",
                                  city |-> city])]
    ELSE IF detected
    THEN [tally EXCEPT
            !.detectedCount = @ + 1,
            !.impactedCount = @ + 1,
            !.batchLogs = PushIf(@, tally.totalLaunched, 50,
                                 [round |-> r + 1, kind |-> "failure",
                                  city |-> city])]
    ELSE tally

\* lines 102-133: the trial is counted, `tally` having the trial launched
TallyOutcome(tally, r, city, detected, hit) ==
    IF detected /\ hit
    THEN [tally EXCEPT
            !.detectedCount = @ + 1,
            !.interceptedCount = @ + 1,
            !.batchLogs = PushIf(@, tally.totalLaunched, 100,
                                 [round |-> r + 1, kind |-> "intercepted",
                                  city |-> city])]
    ELSE IF detected
    THEN [tally EXCEPT
            !.detectedCount = @ + 1,
            !.impactedCount = @ + 1,
            !.batchLogs = PushIf(@, tally.totalLaunched, 50,
                                 [round |-> r + 1, kind |-> "failure",
                                  city |-> city])]
    ELSE [tally EXCEPT
            !.impactedCount = @ + 1,
            !.batchLogs = PushIf(@, tally.totalLaunched, 20,
                                 [round |-> r + 1, kind |-> "undetected",
                                  city |-> city])]

\* the body of the two loops for one missile of round r (lines 70-133)
TallyTrial(tally, r, draw, activeRadars, activeInterceptors, missile) ==
    TallyOutcome([tally EXCEPT !.totalLaunched = @ + 1], r, draw.city,
                 PathDetected(activeRadars, TrialStart(draw), TrialTarget(draw)),
                 PathHit(activeInterceptors, TrialStart(draw), TrialTarget(draw),
                         missile))

\* for (r < rounds) for (m < missilesPerRound): trial k = r *
\* missilesPerRound + m draws draws[k + 1]
RECURSIVE BatchLoop(_, _, _, _, _)
BatchLoop(tally, k, config, draws, activeUnits) ==
    IF k >= config.rounds * config.missilesPerRound THEN tally
    ELSE BatchLoop(TallyTrial(tally, k \div config.missilesPerRound,
                              draws[k + 1], activeUnits.radars,
                              activeUnits.interceptors, config.selectedMissile),
                   k + 1, config, draws, activeUnits)

\* a faulty variant of detectionRate: the division is left out
detectionRateTimes100(detectedCount, totalLaunched) ==
    IF totalLaunched = 0 THEN "NaN" ELSE detectedCount * 100000

\* (detectedCount / totalLaunched) * 100, in 1e-3 percent; 0 / 0 is NaN
detectionRate(detectedCount, totalLaunched) ==
    IF totalLaunched = 0 THEN "NaN"
    ELSE (detectedCount * 100000) \div totalLaunched

\* batchLogs.slice(0, 20)
FirstLogs(batchLogs) == SubSeq(batchLogs, 1, Min2(Len(batchLogs), 20))

\* the object passed to setResults (lines 138-145), timeTaken left out
ResultsOf(tally) ==
    [present       |-> TRUE,
     totalLaunched |-> tally.totalLaunched,
     intercepted   |-> tally.interceptedCount,
     impacted      |-> tally.impactedCount,
     detectionRate |-> detectionRate(tally.detectedCount, tally.totalLaunched),
     logs          |-> FirstLogs(tally.batchLogs)]

\* the computation of the timeout callback (lines 59-145) for the state
\* `config` the callback has captured
runBatch(config, draws) ==
    ResultsOf(BatchLoop(NoBatchTally, 0, config, draws,
                        [radars |-> ActiveOfRole(config.systems, "RADAR"),
                         interceptors |->
                             ActiveOfRole(config.systems, "INTERCEPTOR")]))

(***************************************************************************)
(* State of the AttackSimulator component.                                 *)
(*   mounted         the component exists (its effects are installed)      *)
(*   active          the `active` prop                                     *)
(*   systems         systemsRef.current, the `systems` prop                *)
(*   pending         the animation-frame callbacks requested and neither   *)
(*                   run nor cancelled (their ids)                         *)
(*   requestRef      requestRef.current                                    *)
(*   threats, explosions, logs, stats, pointAlpha, speedMultiplier         *)
(*                   the useState values of the same names                 *)
(*   strikeTimers    the setTimeout callbacks of launchRandomStrike that   *)
(*                   have not run yet                                      *)
(*   toggles         the number of times a unit was switched (bounds the   *)
(*                   exploration, not a value of the program)              *)
(*   geoData         the region boundary the scores are computed with      *)
(*   scores          calculateScores(systems, geoData), recomputed         *)
(*                   whenever one of the two changes                       *)
(*   rounds, missilesPerRound, selectedMissile, isSimulating, results      *)
(*                   the useState values of the StressTest component       *)
(*   batchTimer      the setTimeout callback of runBatchTest that has not  *)
(*                   run yet, with the values its closure has captured     *)
(*   mutation        the last call of mutateDeployment: its arguments and  *)
(*                   the layout it returned                                *)
(*   generation      the number of layouts the search has adopted (bounds  *)
(*                   the exploration, not a value of the program)          *)
(***************************************************************************)
VARIABLES mounted, active, systems, pending, requestRef, threats, explosions,
          logs, stats, pointAlpha, speedMultiplier, strikeTimers, toggles,
          geoData, scores
VARIABLES rounds, missilesPerRound, selectedMissile, isSimulating, results,
          batchTimer, mutation, generation
\* the time in milliseconds, the timer of the explosions effect and the
\* times at which the explosions were created
VARIABLES now, explosionTimer, born

vars == << mounted, active, systems, pending, requestRef, threats, explosions,
           logs, stats, pointAlpha, speedMultiplier, strikeTimers, toggles,
           geoData, scores, rounds, missilesPerRound, selectedMissile,
           isSimulating, results, batchTimer, mutation, generation,
           now, explosionTimer, born >>

scoreVars == << geoData, scores >>

batchVars == << rounds, missilesPerRound, selectedMissile, isSimulating,
                results, batchTimer >>

deployVars == << mutation, generation >>

clockVars == << now, explosionTimer, born >>

toolVars == << batchVars, deployVars, clockVars >>

(***************************************************************************)
(* Bounds of the exploration and the inputs drawn.                         *)
(***************************************************************************)
\* threats launched per activation
MaxThreats == 2

\* ticks are explored while every moving threat is within this many
\* kilometres of its start
HorizonKm == 5

\* switches of a unit explored
MaxToggles == 1

\* log entries beyond which no further language change is explored
MaxLangLogs == 2

\* missiles of a random strike (the buttons pass 5 and 15)
StrikeCount == 1

\* the time-acceleration buttons explored, of [1, 5, 10, 25, 100]
SpeedOptions == {1, 5}

\* rawDeltaTime of a tick, in milliseconds
FrameMs == {200}

\* 0.005 * speedMod * attackerSpeedScale for the hypersonic type (12.0) at
\* scale 2.0, the speed of the threats launched
LaunchSpeeds == {BASE_THREAT_SPEED * 12 * 2}

Colombo == LatLng(69271000, 798612000)

\* map points the user clicks: Colombo and 5 km north of it
ClickPoints == {Colombo, LatLng(69721000, 798612000)}

\* origins launchRandomStrike draws: side 0 (maxLat + 2.5) at mid-longitude
StrikeOrigins == {LatLng(124000000, 807500000)}

\* targets launchRandomStrike draws: cities
StrikeTargets == {Colombo}

\* the layout: a radar without the isActive field at Colombo, an
\* interceptor 6 km south of it and a faster one with a short range at it
InitialSystems ==
    << [id |-> "R1", lat |-> 69271000, lng |-> 798612000, role |-> "RADAR",
        range |-> 4, shotSpeed |-> 0, isActive |-> "undefined"],
       [id |-> "I1", lat |-> 68731000, lng |-> 798612000, role |-> "INTERCEPTOR",
        range |-> 150, shotSpeed |-> 2500, isActive |-> "true"],
       [id |-> "I2", lat |-> 69271000, lng |-> 798612000, role |-> "INTERCEPTOR",
        range |-> 3, shotSpeed |-> 9000, isActive |-> "true"] >>

NoStats == [launched |-> 0, intercepted |-> 0, impacted |-> 0]

\* geoData before the boundary is loaded (null)
NoGeoData == [present |-> FALSE, features |-> << >>]

\* setResults(null) and the state before the first run
NoResults == [present |-> FALSE]

\* no callback of runBatchTest is waiting
NoBatchTimer == [present |-> FALSE]

\* mutateDeployment has not been called
NoMutation == [present |-> FALSE]

\* the initial state of the StressTest component (useState(100),
\* useState(20), useState(MISSILE_TYPES[1]), useState(false),
\* useState(null)), the sliders at their lowest position where the
\* exploration is bounded, and of the search
InitTools ==
    /\ rounds = 1
    /\ missilesPerRound = 1
    /\ selectedMissile = MISSILE_TYPES[2]
    /\ isSimulating = FALSE
    /\ results = NoResults
    /\ batchTimer = NoBatchTimer
    /\ mutation = NoMutation
    /\ generation = 0
    /\ now = 0
    /\ explosionTimer = [present |-> FALSE]
    /\ born = << >>

\* the state after construction and the first run of the effects with
\* active = false
Init ==
    /\ mounted = TRUE
    /\ active = FALSE
    /\ systems = InitialSystems
    /\ pending = {}
    /\ requestRef = 0
    /\ threats = << >>
    /\ explosions = << >>
    /\ logs = << >>
    /\ stats = NoStats
    /\ pointAlpha = << >>
    /\ speedMultiplier = 1
    /\ strikeTimers = 0
    /\ toggles = 0
    /\ geoData = NoGeoData
    /\ scores = calculateScores(systems, geoData)
    /\ InitTools

(***************************************************************************)
(* Animation frames.                                                       *)
(***************************************************************************)
\* a faulty variant of cancelAnimationFrame: nothing is cancelled
cancelNothing(callbacks, id) == callbacks

\* cancelAnimationFrame(id)
cancelAnimationFrame(callbacks, id) == callbacks \ {id}

\* the id requestAnimationFrame returns: one no live callback has (every
\* call site stores it in requestRef at once, so an id that is no longer
\* live may be handed out again)
FreshId(callbacks) ==
    CHOOSE n \in 1..(Cardinality(callbacks) + 1) :
        /\ n \notin callbacks
        /\ \A m \in 1..(n - 1) : m \in callbacks

\* the cleanup of the activation effect (line 278)
EffectCleanup(callbacks) == cancelAnimationFrame(callbacks, requestRef)

\* a faulty variant of RunEffect: deactivation pauses, the counters and the
\* explosions are kept
RunEffectPause(isActive) ==
    LET cleaned == EffectCleanup(pending)
    IN  IF isActive
        THEN /\ requestRef' = FreshId(cleaned)
             /\ pending' = cleaned \cup {requestRef'}
             /\ logs' = AddLogs(logs, << LogEntry("success", "engaged", 0) >>)
             /\ UNCHANGED << threats, pointAlpha, stats, explosions >>
        ELSE /\ pending' = cancelAnimationFrame(cleaned, requestRef)
             /\ threats' = << >>
             /\ pointAlpha' = << >>
             /\ logs' = << >>
             /\ UNCHANGED << requestRef, stats, explosions >>

\* the body of the activation effect (lines 265-277) run with `isActive`,
\* after the cleanup of its previous run
RunEffect(isActive) ==
    LET cleaned == EffectCleanup(pending)
    IN  IF isActive
        THEN /\ requestRef' = FreshId(cleaned)
             /\ pending' = cleaned \cup {requestRef'}
             /\ logs' = AddLogs(logs, << LogEntry("success", "engaged", 0) >>)
             /\ UNCHANGED << threats, pointAlpha, stats, explosions >>
        ELSE /\ pending' = cancelAnimationFrame(cleaned, requestRef)
             /\ threats' = << >>
             /\ pointAlpha' = << >>
             /\ logs' = << >>
             /\ stats' = NoStats
             /\ explosions' = << >>
             /\ UNCHANGED requestRef

\* the parent sets active = true
Activate ==
    /\ mounted /\ ~active
    /\ active' = TRUE
    /\ RunEffect(TRUE)
    /\ UNCHANGED << mounted, systems, speedMultiplier, strikeTimers, toggles >>
    /\ UNCHANGED << scoreVars, toolVars >>

\* onDeactivate: the parent sets active = false
Deactivate ==
    /\ mounted /\ active
    /\ active' = FALSE
    /\ RunEffect(FALSE)
    /\ UNCHANGED << mounted, systems, speedMultiplier, strikeTimers, toggles >>
    /\ UNCHANGED << scoreVars, toolVars >>

\* the `lang` prop changes: the effect runs again with the same `active`
LangChange ==
    /\ mounted
    /\ Len(logs) < MaxLangLogs
    /\ RunEffect(active)
    /\ UNCHANGED << mounted, active, systems, speedMultiplier, strikeTimers, toggles >>
    /\ UNCHANGED << scoreVars, toolVars >>

\* the component is unmounted: the cleanup runs, the state is gone
Unmount ==
    /\ mounted
    /\ mounted' = FALSE
    /\ pending' = EffectCleanup(pending)
    /\ UNCHANGED << active, systems, requestRef, threats, explosions, logs, stats,
                    pointAlpha, speedMultiplier, strikeTimers, toggles >>
    /\ UNCHANGED << scoreVars, toolVars >>

(***************************************************************************)
(* updateSimulation(time): the pending callback `id` runs, `rawMs` after   *)
(* the previous one.                                                       *)
(***************************************************************************)
\* the updater (lines 179-260) has thrown: the error surfaces in React's
\* render, no boundary catches it and the component is unmounted; the frame
\* requested at line 261 is cancelled by the effect's cleanup (line 278)
TickThrown(id) ==
    /\ mounted' = FALSE
    /\ pending' = {}
    /\ UNCHANGED << active, systems, requestRef, threats, explosions, logs, stats,
                    pointAlpha, speedMultiplier, strikeTimers, toggles >>
    /\ UNCHANGED << scoreVars, toolVars >>

\* the tick with the state updates the updater has made
TickUpdates(id, r) ==
    /\ threats' = r.threats
    /\ explosions' = explosions \o r.explosions
    /\ stats' = [stats EXCEPT !.intercepted = @ + r.intercepted,
                              !.impacted = @ + r.impacted]
    /\ logs' = AddLogs(logs, r.logs)
    /\ requestRef' = FreshId(pending \ {id})
    /\ pending' = (pending \ {id}) \cup {requestRef'}
    /\ UNCHANGED << mounted, active, systems, pointAlpha, speedMultiplier,
                    strikeTimers, toggles >>

TickDone(id, r) ==
    /\ TickUpdates(id, r)
    /\ UNCHANGED << scoreVars, toolVars >>

TickBody(id, rawMs) ==
    \E r \in {UpdateThreats(threats, systems, rawMs, speedMultiplier)} :
        IF r.thrown THEN TickThrown(id) ELSE TickDone(id, r)

WithinHorizon ==
    \A i \in 1..Len(threats) :
        threats[i].status = "MOVING" =>
            distanceTo(threats[i].start, threats[i].current) < HorizonKm * 1000

Tick ==
    /\ WithinHorizon
    /\ \E id \in pending, rawMs \in FrameMs : TickBody(id, rawMs)

(***************************************************************************)
(* Launches.                                                               *)
(***************************************************************************)
\* a faulty variant of launchThreat: the launch is not counted
launchThreatUncounted(start, target, speed) ==
    /\ threats' = Append(threats, NewThreat(Len(threats) + 1, start, target, speed))
    /\ UNCHANGED stats

\* launchThreat(start, target) with finalSpeed = speed
launchThreat(start, target, speed) ==
    /\ threats' = Append(threats, NewThreat(Len(threats) + 1, start, target, speed))
    /\ stats' = [stats EXCEPT !.launched = @ + 1]

\* the map click handler (lines 81-91)
Click ==
    /\ mounted /\ active
    /\ Len(threats) < MaxThreats
    /\ \E p \in ClickPoints :
          IF pointAlpha = << >>
          THEN /\ pointAlpha' = << p >>
               /\ logs' = AddLogs(logs, << LogEntry("warning", "point", 0) >>)
               /\ UNCHANGED << threats, stats >>
          ELSE /\ \E speed \in LaunchSpeeds : launchThreat(pointAlpha[1], p, speed)
               /\ pointAlpha' = << >>
               /\ UNCHANGED logs
    /\ UNCHANGED << mounted, active, systems, pending, requestRef, explosions,
                    speedMultiplier, strikeTimers, toggles >>
    /\ UNCHANGED << scoreVars, toolVars >>

\* launchRandomStrike(count, label): the log entry and `count` timers
launchRandomStrike ==
    /\ mounted /\ active
    /\ strikeTimers = 0
    /\ Len(threats) < MaxThreats
    /\ logs' = AddLogs(logs, << LogEntry("danger", "strike", 0) >>)
    /\ strikeTimers' = strikeTimers + StrikeCount
    /\ UNCHANGED << mounted, active, systems, pending, requestRef, threats,
                    explosions, stats, pointAlpha, speedMultiplier, toggles >>
    /\ UNCHANGED << scoreVars, toolVars >>

\* a timer of launchRandomStrike runs (lines 114-143); on an unmounted
\* component the state updates are dropped
StrikeTimer ==
    /\ strikeTimers > 0
    /\ Len(threats) < MaxThreats
    /\ strikeTimers' = strikeTimers - 1
    /\ IF mounted
       THEN \E o \in StrikeOrigins, t \in StrikeTargets, speed \in LaunchSpeeds :
               launchThreat(o, t, speed)
       ELSE UNCHANGED << threats, stats >>
    /\ UNCHANGED << mounted, active, systems, pending, requestRef, explosions, logs,
                    pointAlpha, speedMultiplier, toggles >>
    /\ UNCHANGED << scoreVars, toolVars >>

\* a time-acceleration button: setSpeedMultiplier(s), speedRef follows
SetSpeed ==
    /\ mounted /\ active
    /\ \E s \in SpeedOptions : s # speedMultiplier /\ speedMultiplier' = s
    /\ UNCHANGED << mounted, active, systems, pending, requestRef, threats,
                    explosions, logs, stats, pointAlpha, strikeTimers, toggles >>
    /\ UNCHANGED << scoreVars, toolVars >>

\* the user switches a unit off or on in the parent: isActive is toggled
\* and the scores are computed again
ToggleSystem ==
    /\ mounted
    /\ toggles < MaxToggles
    /\ toggles' = toggles + 1
    /\ \E i \in 1..Len(systems) :
          systems' = [systems EXCEPT ![i].isActive =
                         IF IsActive(systems[i]) THEN "false" ELSE "true"]
    /\ scores' = calculateScores(systems', geoData)
    /\ UNCHANGED << mounted, active, pending, requestRef, threats, explosions, logs,
                    stats, pointAlpha, speedMultiplier, strikeTimers, geoData >>
    /\ UNCHANGED toolVars

Next ==
    \/ Activate
    \/ Deactivate
    \/ LangChange
    \/ Unmount
    \/ Tick
    \/ Click
    \/ launchRandomStrike
    \/ StrikeTimer
    \/ SetSpeed
    \/ ToggleSystem

Spec == Init /\ [][Next]_vars

(***************************************************************************)
(* Properties of the simulator, checked under Spec.                        *)
(***************************************************************************)
MovingCount ==
    Cardinality({i \in 1..Len(threats) : threats[i].status = "MOVING"})

\* C1: at every point of a run the launched counter equals the intercepted
\* counter plus the impacted counter plus the number of MOVING threats.
C1_LaunchedIsConserved ==
    stats.launched = stats.intercepted + stats.impacted + MovingCount

\* two launches, one ended by an intercept and one by an impact
C1_Witness ==
    stats.launched = 2 /\ stats.intercepted = 1 /\ stats.impacted = 1

Terminal(t) == t.status \in {"INTERCEPTED", "IMPACTED"}

\* C2: once a threat is INTERCEPTED or IMPACTED no step changes its status,
\* its current position, its interceptor binding or its pursuit position;
\* it disappears only with the reset of a deactivation.
C2_TerminalIsFinal ==
    [][\A i \in 1..Len(threats) :
          Terminal(threats[i]) =>
              \/ /\ i <= Len(threats')
                 /\ threats'[i].status = threats[i].status
                 /\ threats'[i].current = threats[i].current
                 /\ threats'[i].interceptorId = threats[i].interceptorId
                 /\ threats'[i].interceptorPos = threats[i].interceptorPos
              \/ /\ active /\ ~active'
                 /\ threats' = << >>]_vars

\* the first threat ended before the random strike was ordered (the log is
\* newest first), and the strike's missile has flown since: ticks have run
\* over the ended threat
C2_Witness ==
    /\ Len(threats) = 2
    /\ Terminal(threats[1])
    /\ threats[2].status = "MOVING"
    /\ threats[2].current # threats[2].start
    /\ \E j, k \in 1..Len(logs) :
          /\ j < k
          /\ logs[j].msg = "strike"
          /\ logs[k].id = threats[1].id
          /\ logs[k].msg \in {"intercept", "impact"}

\* C3: a threat has one interceptor id at most, and once it is set no step
\* changes it, whatever faster interceptor is feasible by then.
C3_BindingIsFixed ==
    [][\A i \in 1..Len(threats) :
          (threats[i].interceptorId # NoId /\ i <= Len(threats')) =>
              threats'[i].interceptorId = threats[i].interceptorId]_vars

\* a moving threat bound to the slower I1 while the faster I2 is active,
\* the threat is covered by an active radar and I2's intercept is feasible
C3_Witness ==
    \E i \in 1..Len(threats) :
        /\ threats[i].status = "MOVING"
        /\ threats[i].interceptorId = "I1"
        /\ Covering(ActiveOfRole(systems, "RADAR"), threats[i].current) # << >>
        /\ \E n \in 1..Len(systems) :
              /\ systems[n].id = "I2"
              /\ IsActive(systems[n])
              /\ systems[n].shotSpeed > PursuitSpeed(threats[i], systems)
              /\ Feasible(threats[i], systems[n])

\* the unit of this id is in the list and is not switched off
UnitActive(id) ==
    \E n \in 1..Len(systems) : systems[n].id = id /\ IsActive(systems[n])

\* C4: a unit whose isActive is false takes part in nothing: no step makes
\* it the detecting radar of a threat, binds it to a threat, moves its
\* pursuit of a threat or lets it kill one, also when it was bound while
\* it was active.
C4_InactiveUnitTakesNoPart ==
    [][\A i \in 1..Len(threats) :
          i <= Len(threats') =>
              /\ threats'[i].detectedByRadarId # threats[i].detectedByRadarId
                    => UnitActive(threats'[i].detectedByRadarId)
              /\ threats'[i].interceptorId # threats[i].interceptorId
                    => UnitActive(threats'[i].interceptorId)
              /\ (threats[i].interceptorId # NoId
                     /\ ~UnitActive(threats[i].interceptorId))
                    => /\ threats'[i].interceptorPos = threats[i].interceptorPos
                       /\ ~(threats[i].status = "MOVING"
                              /\ threats'[i].status = "INTERCEPTED")]_vars

\* C5: a deactivation leaves the threats, the explosions and the log empty,
\* the three counters 0 and the launch point cleared.
C5_DeactivationResets ==
    [][(active /\ ~active') =>
          /\ threats' = << >>
          /\ explosions' = << >>
          /\ logs' = << >>
          /\ stats' = NoStats
          /\ pointAlpha' = << >>]_vars

\* the simulation was deactivated with timers of a random strike still to
\* run (so with a log that was not empty), and everything is clear
C5_Witness ==
    /\ mounted /\ ~active
    /\ requestRef # 0
    /\ strikeTimers > 0
    /\ threats = << >> /\ explosions = << >> /\ logs = << >>
    /\ stats = NoStats /\ pointAlpha = << >>

\* C6: at most one tick callback is pending at any time, and none while the
\* simulation is inactive or unmounted: no tick can run between a
\* deactivation and the next activation.
C6_OnePendingTick ==
    /\ Cardinality(pending) <= 1
    /\ (~active \/ ~mounted) => pending = {}

\* a callback was requested and, the simulation deactivated, none is left
C6_Witness ==
    /\ mounted /\ ~active
    /\ requestRef # 0
    /\ pending = {}

\* the entries a step puts in front of the log
Appended(e) == \E k \in 1..(Len(logs') - Len(logs)) : logs'[k] = e

AppendedFor(id) ==
    Cardinality({k \in 1..(Len(logs') - Len(logs)) : logs'[k].id = id})

NewlyDetected(i) ==
    threats[i].detectedByRadarId = NoId /\ threats'[i].detectedByRadarId # NoId

NewlyBound(i) ==
    threats[i].interceptorId = NoId /\ threats'[i].interceptorId # NoId

NewlyIntercepted(i) ==
    threats[i].status = "MOVING" /\ threats'[i].status = "INTERCEPTED"

NewlyImpacted(i) ==
    threats[i].status = "MOVING" /\ threats'[i].status = "IMPACTED"

Count(b) == IF b THEN 1 ELSE 0

\* C8 (as stated): a step appends one log entry about a threat for each of
\* its detection, its lock-on, its intercept and its impact in that step.
C8_EveryEventIsLogged ==
    [][\A i \in 1..Len(threats) :
          i <= Len(threats') =>
              AppendedFor(threats[i].id) >=
                  Count(NewlyDetected(i)) + Count(NewlyBound(i)) +
                  Count(NewlyIntercepted(i)) + Count(NewlyImpacted(i))]_vars

\* C8 (amended): a step appends a warning entry for a lock-on, a success
\* entry for an intercept and a danger entry for an impact of a threat, and
\* no other entry about the threat: a detection appends none.
C8_LockInterceptImpactAreLogged ==
    [][\A i \in 1..Len(threats) :
          i <= Len(threats') =>
              /\ NewlyBound(i) =>
                    Appended(LogEntry("warning", "lock", threats[i].id))
              /\ NewlyIntercepted(i) =>
                    Appended(LogEntry("success", "intercept", threats[i].id))
              /\ NewlyImpacted(i) =>
                    Appended(LogEntry("danger", "impact", threats[i].id))
              /\ AppendedFor(threats[i].id) =
                    Count(NewlyBound(i)) + Count(NewlyIntercepted(i)) +
                    Count(NewlyImpacted(i))]_vars

\* a threat was detected, locked on and intercepted, and the log holds its
\* lock-on and its intercept and nothing else about it
C8_Witness ==
    \E i \in 1..Len(threats) :
        /\ threats[i].status = "INTERCEPTED"
        /\ threats[i].detectedByRadarId # NoId
        /\ \E k \in 1..Len(logs) :
              logs[k] = LogEntry("warning", "lock", threats[i].id)
        /\ \E k \in 1..Len(logs) :
              logs[k] = LogEntry("success", "intercept", threats[i].id)
        /\ Cardinality({k \in 1..Len(logs) : logs[k].id = threats[i].id}) = 2


(***************************************************************************)
(* The Colombo scenario: a radar of range 500 km and an interceptor of     *)
(* range 150 km and shotSpeed 0.25 at Colombo, and a threat on its way     *)
(* from (9.9, 80.75) to Colombo at speed 0.0075 (the cruise type at scale  *)
(* 1.0).  The simulation is active, the threat has just been launched and  *)
(* a time acceleration has been chosen; from there only ticks happen.      *)
(***************************************************************************)
ScenarioRadar ==
    [id |-> "R1", lat |-> 69271000, lng |-> 798612000, role |-> "RADAR",
     range |-> 500, shotSpeed |-> 0, isActive |-> "true"]

ScenarioInterceptor ==
    [id |-> "I1", lat |-> 69271000, lng |-> 798612000, role |-> "INTERCEPTOR",
     range |-> 150, shotSpeed |-> 2500, isActive |-> "true"]

ScenarioThreat == NewThreat(1, LatLng(99000000, 807500000), Colombo, 75)

\* the time-acceleration buttons explored, of [1, 5, 10, 25, 100]
ScenarioSpeeds == {1, 100}

\* rawDeltaTime of a tick at 60 frames per second, in milliseconds
ScenarioFrameMs == {16}

InitScenario ==
    /\ mounted = TRUE
    /\ active = TRUE
    /\ systems = << ScenarioRadar, ScenarioInterceptor >>
    /\ pending = {1}
    /\ requestRef = 1
    /\ threats = << ScenarioThreat >>
    /\ explosions = << >>
    /\ logs = << LogEntry("success", "engaged", 0) >>
    /\ stats = [NoStats EXCEPT !.launched = 1]
    /\ pointAlpha = << >>
    /\ speedMultiplier \in ScenarioSpeeds
    /\ strikeTimers = 0
    /\ toggles = 0
    /\ geoData = NoGeoData
    /\ scores = calculateScores(systems, geoData)
    /\ InitTools

ScenarioTick ==
    \E id \in pending, rawMs \in ScenarioFrameMs : TickBody(id, rawMs)

NextScenario == ScenarioTick

\* a tick changes the state exactly when a callback is pending and a
\* threat is MOVING (a moving threat advances; without one the updater
\* returns prevThreats)
TickCanChange == pending # {} /\ AnyMoving(threats)

\* the browser keeps running the requested animation frames: weak fairness
\* of the tick, WF_vars(ScenarioTick), written out with TickCanChange for
\* ENABLED <<ScenarioTick>>_vars
SpecScenario ==
    /\ InitScenario /\ [][NextScenario]_vars
    /\ ([]<>(~TickCanChange) \/ []<><<ScenarioTick>>_vars)

\* C7: in the Colombo scenario the threat is detected by the radar as soon
\* as it has moved within 500 km of it, is bound to the interceptor by the
\* first tick that finds the predicted intercept point within 150 km of the
\* interceptor (and by none before), never comes within the impact
\* threshold of Colombo and is eventually INTERCEPTED.
C7_ScenarioEndsIntercepted ==
    /\ []((/\ threats[1].current # threats[1].start
           /\ distanceTo(threats[1].current, SysPos(ScenarioRadar)) <= 500 * 1000)
             => threats[1].detectedByRadarId = "R1")
    /\ [][(/\ threats[1].status = "MOVING"
           /\ threats[1].interceptorId = NoId
           /\ Feasible(threats[1], ScenarioInterceptor)
           /\ threats' # threats)
             => threats'[1].interceptorId = "I1"]_vars
    /\ [][(threats[1].interceptorId = NoId /\ threats'[1].interceptorId # NoId)
             => /\ threats'[1].interceptorId = "I1"
                /\ distanceTo(threats'[1].predictedInterceptPoint[1],
                              SysPos(ScenarioInterceptor)) <= 150 * 1000]_vars
    /\ [](/\ threats[1].status # "IMPACTED"
          /\ distanceTo(threats[1].current, threats[1].target)
                >= impactThreshold(speedMultiplier))
    /\ <>(threats[1].status = "INTERCEPTED")

\* the threat was detected, bound and intercepted away from Colombo
C7_Witness ==
    /\ threats[1].status = "INTERCEPTED"
    /\ threats[1].detectedByRadarId = "R1"
    /\ threats[1].interceptorId = "I1"
    /\ threats[1].start = ScenarioThreat.start
    /\ distanceTo(threats[1].current, threats[1].target)
          > impactThreshold(speedMultiplier)

(***************************************************************************)
(* Coverage scoring: units are placed and switched and the boundary is     *)
(* loaded; the scores are computed again at each change.                   *)
(***************************************************************************)
\* units placed at a time
MaxUnits == 3

\* the units placed: radars at Kandy and Jaffna, interceptors at Colombo
\* and (switched off) Trincomalee
ScoreUnits ==
    { [id |-> "RA", lat |-> 72906000, lng |-> 806337000, role |-> "RADAR",
       range |-> 120, shotSpeed |-> 0, isActive |-> "undefined"],
      [id |-> "RB", lat |-> 96615000, lng |-> 800104000, role |-> "RADAR",
       range |-> 100, shotSpeed |-> 0, isActive |-> "true"],
      [id |-> "IA", lat |-> 69271000, lng |-> 798612000, role |-> "INTERCEPTOR",
       range |-> 150, shotSpeed |-> 2500, isActive |-> "true"],
      [id |-> "IB", lat |-> 85873000, lng |-> 812152000, role |-> "INTERCEPTOR",
       range |-> 120, shotSpeed |-> 2200, isActive |-> "false"] }

\* a closed rectangular ring of << lng, lat >> vertices
Ring(minLat, maxLat, minLng, maxLng) ==
    << << minLng, minLat >>, << maxLng, minLat >>, << maxLng, maxLat >>,
       << minLng, maxLat >>, << minLng, minLat >> >>

Polygon(ring) == [type |-> "Polygon", coordinates |-> << ring >>]

\* the boundaries loaded: no feature; a polygon over the whole bounding
\* box; a triangular island; an island and, as a second feature, a lake
\* inside it; a MultiPolygon of a northern and a southern island; an island
\* whose lake is the second (inner) ring of the same polygon
GeoChoices ==
    { [present |-> TRUE, features |-> << >>],
      [present |-> TRUE, features |->
          << Polygon(Ring(50000000, 105000000, 790000000, 830000000)) >>],
      [present |-> TRUE, features |->
          << Polygon(<< << 796000000, 59000000 >>, << 819000000, 59000000 >>,
                        << 807000000, 98000000 >>, << 796000000, 59000000 >> >>) >>],
      [present |-> TRUE, features |->
          << Polygon(Ring(60000000, 95000000, 798000000, 818000000)),
             Polygon(Ring(70000000, 80000000, 803000000, 810000000)) >>],
      [present |-> TRUE, features |->
          << [type |-> "MultiPolygon", coordinates |->
                 << << Ring(85000000, 98000000, 797000000, 810000000) >>,
                    << Ring(59000000, 75000000, 798000000, 817000000) >> >>] >>],
      [present |-> TRUE, features |->
          << [type |-> "Polygon", coordinates |->
                 << Ring(60000000, 95000000, 798000000, 818000000),
                    Ring(70000000, 80000000, 803000000, 810000000) >>] >>] }

InitScores ==
    /\ mounted = TRUE
    /\ active = FALSE
    /\ systems = << >>
    /\ pending = {}
    /\ requestRef = 0
    /\ threats = << >>
    /\ explosions = << >>
    /\ logs = << >>
    /\ stats = NoStats
    /\ pointAlpha = << >>
    /\ speedMultiplier = 1
    /\ strikeTimers = 0
    /\ toggles = 0
    /\ geoData = NoGeoData
    /\ scores = calculateScores(systems, geoData)
    /\ InitTools

\* a unit is added to the deployment
PlaceUnit ==
    /\ Len(systems) < MaxUnits
    /\ \E u \in ScoreUnits :
          /\ \A n \in 1..Len(systems) : systems[n].id # u.id
          /\ systems' = Append(systems, u)
    /\ scores' = calculateScores(systems', geoData)
    /\ UNCHANGED << mounted, active, pending, requestRef, threats, explosions, logs,
                    stats, pointAlpha, speedMultiplier, strikeTimers, toggles,
                    geoData >>
    /\ UNCHANGED toolVars

\* the boundary arrives
LoadGeoData ==
    /\ ~geoData.present
    /\ geoData' \in GeoChoices
    /\ scores' = calculateScores(systems, geoData')
    /\ UNCHANGED << mounted, active, systems, pending, requestRef, threats,
                    explosions, logs, stats, pointAlpha, speedMultiplier,
                    strikeTimers, toggles >>
    /\ UNCHANGED toolVars

NextScores ==
    \/ PlaceUnit
    \/ LoadGeoData
    \/ ToggleSystem

SpecScores == InitScores /\ [][NextScores]_vars

\* the sample points of the grid and the cities
SamplePoints ==
    {GridPoint(i, j) : i \in 0..(gridSize - 1), j \in 0..(gridSize - 1)}

CityPoints == {LatLng(CITIES[n].lat, CITIES[n].lng) : n \in 1..Len(CITIES)}

\* the counts behind the scores of the current state
GridTally ==
    TallyGrid(NoTally, 0, ActiveOfRole(systems, "RADAR"),
              ActiveOfRole(systems, "INTERCEPTOR"), geoData)

\* C9: each of the five metrics of calculateScores lies in [0, 100], and a
\* metric is exactly 0 when its denominator is 0 (no land sample, no sea
\* sample, no city weight) or when there is no boundary at all.
C9_ScoresInRange ==
    /\ \A m \in {scores.combinedLand, scores.combinedCities, scores.combinedSea,
                 scores.radarLand, scores.attackLand} : 0 <= m /\ m <= 100000
    /\ ~geoData.present => scores = NoScores
    /\ (geoData.present /\ GridTally.landPointsTotal = 0) =>
          /\ scores.combinedLand = 0
          /\ scores.radarLand = 0
          /\ scores.attackLand = 0
    /\ (geoData.present /\ GridTally.seaPointsTotal = 0) =>
          scores.combinedSea = 0

\* a boundary without land under a deployment that covers sea: the land
\* metrics have an empty denominator and are 0 while the sea metric is not
C9_Witness ==
    /\ geoData.present
    /\ GridTally.landPointsTotal = 0
    /\ GridTally.seaPointsTotal > 0
    /\ scores.combinedSea > 0
    /\ scores.combinedLand = 0

\* the unit has the point within its range
InRange(point, sys) == distanceTo(point, SysPos(sys)) <= sys.range * 1000

\* an active unit of this role has the point within its own range
SomeInRange(point, role) ==
    \E n \in 1..Len(systems) :
        /\ systems[n].role = role
        /\ IsActive(systems[n])
        /\ InRange(point, systems[n])

\* C10: a sample point or a city counts as radar-covered iff an active
\* radar has it within that radar's range, and the same for interceptors;
\* without an active unit it never does, and the scores do not depend on
\* the order of the units (exchanging two neighbours changes none, and
\* every order is reached by such exchanges).
C10_CoveredIffSomeUnitInRange ==
    /\ \A point \in SamplePoints \cup CityPoints :
          /\ hitsAtPoint(point, ActiveOfRole(systems, "RADAR")) > 0
                <=> SomeInRange(point, "RADAR")
          /\ hitsAtPoint(point, ActiveOfRole(systems, "INTERCEPTOR")) > 0
                <=> SomeInRange(point, "INTERCEPTOR")
    /\ \A n \in 1..Len(CITIES) :
          CityCovered(CITIES[n], ActiveOfRole(systems, "RADAR"),
                      ActiveOfRole(systems, "INTERCEPTOR"))
             <=> /\ SomeInRange(LatLng(CITIES[n].lat, CITIES[n].lng), "RADAR")
                 /\ SomeInRange(LatLng(CITIES[n].lat, CITIES[n].lng), "INTERCEPTOR")
    /\ \A k \in 1..(Len(systems) - 1) :
          calculateScores([systems EXCEPT ![k] = systems[k + 1],
                                          ![k + 1] = systems[k]], geoData)
             = scores

\* two active radars, and a sample point on land that the first has out of
\* range and the second within: the loop goes past its first unit
C10_Witness ==
    /\ geoData.present
    /\ scores.radarLand > 0
    /\ \E a, b \in 1..Len(systems) :
          /\ a < b
          /\ systems[a].role = "RADAR" /\ IsActive(systems[a])
          /\ systems[b].role = "RADAR" /\ IsActive(systems[b])
          /\ \E point \in SamplePoints :
                /\ isInsideCountry(point.lat, point.lng, geoData)
                /\ ~InRange(point, systems[a])
                /\ InRange(point, systems[b])

(***************************************************************************)
(* Region containment and the missing boundary.                            *)
(***************************************************************************)
\* the rings of the boundary, each named by << feature, polygon, ring >>
RingIds ==
    UNION {
      IF geoData.features[f].type = "Polygon"
      THEN {<< f, 1, r >> : r \in 1..Len(geoData.features[f].coordinates)}
      ELSE UNION {
             {<< f, q, r >> : r \in 1..Len(geoData.features[f].coordinates[q])}
             : q \in 1..Len(geoData.features[f].coordinates) }
      : f \in 1..Len(geoData.features) }

RingAt(id) ==
    IF geoData.features[id[1]].type = "Polygon"
    THEN geoData.features[id[1]].coordinates[id[3]]
    ELSE geoData.features[id[1]].coordinates[id[2]][id[3]]

\* the ring is a closed rectangle with sides along the axes
IsSquareRing(ring) ==
    /\ Len(ring) = 5
    /\ ring = Ring(ring[1][2], ring[3][2], ring[1][1], ring[3][1])
    /\ ring[1][2] < ring[3][2]
    /\ ring[1][1] < ring[3][1]

StrictlyInside(point, ring) ==
    /\ ring[1][2] < point.lat /\ point.lat < ring[3][2]
    /\ ring[1][1] < point.lng /\ point.lng < ring[3][1]

StrictlyOutside(point, ring) ==
    \/ point.lat < ring[1][2] \/ point.lat > ring[3][2]
    \/ point.lng < ring[1][1] \/ point.lng > ring[3][1]

\* C11: with a boundary made of square rings, a point (off every edge) is
\* inside the region iff the number of rings it lies strictly inside is
\* odd: inside one ring it is inside, outside every ring it is outside,
\* and inside an outer ring and a hole nested in it it is outside, the
\* hole being an inner ring of the same polygon or a polygon of its own.
C11_EveryRingToggles ==
    (geoData.present /\ \A id \in RingIds : IsSquareRing(RingAt(id))) =>
        \A point \in SamplePoints \cup CityPoints :
            (\A id \in RingIds : \/ StrictlyInside(point, RingAt(id))
                                 \/ StrictlyOutside(point, RingAt(id)))
            => (isInsideCountry(point.lat, point.lng, geoData)
                  <=> Cardinality({id \in RingIds :
                                     StrictlyInside(point, RingAt(id))}) % 2 = 1)

\* C12: without a boundary every grid sample counts as land: the scores
\* are those of the sampling with every point on land and none at sea, so
\* a deployment whose radars cover a sample has a radar coverage above 0.
C12_MissingBoundaryCountsAsLand ==
    ~geoData.present =>
        /\ scores = ScoresOverGrid(systems, geoData)
        /\ GridTally.seaPointsTotal = 0
        /\ (\E point \in SamplePoints : SomeInRange(point, "RADAR"))
              => scores.radarLand > 0

(***************************************************************************)
(* The simulator with Custom units: the Custom template declares shotSpeed *)
(* 0, for which the solve and the pursuit use the default 0.22, and its    *)
(* speed and range are set by the user.                                    *)
(***************************************************************************)
\* the radar of InitialSystems and three Custom interceptors 7.5 km south of
\* Colombo: one left at shotSpeed 0, one set to 0.2 and one set to 0.12,
\* the speed of the threats launched
CustomSystems ==
    << [id |-> "R1", lat |-> 69271000, lng |-> 798612000, role |-> "RADAR",
        range |-> 4, shotSpeed |-> 0, isActive |-> "undefined"],
       [id |-> "K1", lat |-> 68596500, lng |-> 798612000, role |-> "INTERCEPTOR",
        range |-> 150, shotSpeed |-> 0, isActive |-> "true"],
       [id |-> "K2", lat |-> 68596500, lng |-> 798612000, role |-> "INTERCEPTOR",
        range |-> 150, shotSpeed |-> 2000, isActive |-> "true"],
       [id |-> "K3", lat |-> 68596500, lng |-> 798612000, role |-> "INTERCEPTOR",
        range |-> 150, shotSpeed |-> 1200, isActive |-> "true"] >>

InitCustom ==
    /\ mounted = TRUE
    /\ active = FALSE
    /\ systems = CustomSystems
    /\ pending = {}
    /\ requestRef = 0
    /\ threats = << >>
    /\ explosions = << >>
    /\ logs = << >>
    /\ stats = NoStats
    /\ pointAlpha = << >>
    /\ speedMultiplier = 1
    /\ strikeTimers = 0
    /\ toggles = 0
    /\ geoData = NoGeoData
    /\ scores = calculateScores(systems, geoData)
    /\ InitTools

SpecCustom == InitCustom /\ [][Next]_vars

\* the threats after the first k sub-steps of a tick of rawMs milliseconds
\* that starts in the current state
AfterSubsteps(k, rawMs) ==
    OuterLoop([threats |-> threats, logs |-> << >>, explosions |-> << >>,
               intercepted |-> 0, impacted |-> 0, thrown |-> FALSE],
              k, systems, rawMs, speedMultiplier).threats

\* sub-step k + 1 of the tick is the one that binds threat i
BoundInSubstep(i, k, rawMs) ==
    /\ AfterSubsteps(k, rawMs)[i].interceptorId = NoId
    /\ AfterSubsteps(k + 1, rawMs)[i].interceptorId = threats'[i].interceptorId

\* the unit of this id
UnitOfId(id) == systems[CHOOSE n \in 1..Len(systems) : systems[n].id = id]

\* no active interceptor with a higher engagement speed than the unit
\* `chosen` has a feasible intercept of `threat`
NoFasterFeasible(threat, chosen) ==
    \A n \in 1..Len(systems) :
        (/\ systems[n].role = "INTERCEPTOR"
         /\ IsActive(systems[n])
         /\ ShotSpeedOf(systems[n]) > ShotSpeedOf(chosen))
        => ~Feasible(threat, systems[n])

\* C18: when a tick binds a threat, no active interceptor whose engagement
\* speed (shotSpeed, or the default 0.22 when shotSpeed is 0 or absent) is
\* strictly higher than the bound one's has a feasible intercept in the
\* sub-step of the binding.
C18_FastestFeasibleIsBound ==
    [][\A i \in 1..Len(threats) :
          (i <= Len(threats') /\ NewlyBound(i)) =>
              \A rawMs \in FrameMs :
                  \A k \in 0..(Substeps(speedMultiplier) - 1) :
                      BoundInSubstep(i, k, rawMs) =>
                          NoFasterFeasible(AfterSubsteps(k, rawMs)[i],
                                           UnitOfId(threats'[i].interceptorId))]_vars

\* C19: the intercept solve of a moving threat and an active interceptor
\* gives a point or no solution, also when the two speeds are equal
\* (a = 0): never an undefined point; and no tick fails on it.
C19_SolveGivesPointOrNone ==
    /\ \A i \in 1..Len(threats) : \A n \in 1..Len(systems) :
          (/\ threats[i].status = "MOVING"
           /\ systems[n].role = "INTERCEPTOR"
           /\ IsActive(systems[n]))
          => calculateIntercept(threats[i], systems[n]).kind \in {"point", "null"}
    /\ \A rawMs \in FrameMs :
          ~UpdateThreats(threats, systems, rawMs, speedMultiplier).thrown

\* the sub-step of threat i in this step has ended within the impact
\* threshold of the target: threats'[i].current is the new position of a
\* threat that is MOVING or INTERCEPTED afterwards
EndsWithinThreshold(i) ==
    /\ threats[i].status = "MOVING"
    /\ threats'[i].current # threats[i].current
    /\ threats'[i].status # "IMPACTED"
    /\ distanceTo(threats'[i].current, threats'[i].target)
          < impactThreshold(speedMultiplier)

\* the kill condition of the sub-step that made `t` INTERCEPTED: the record
\* keeps the pursuit position from before the sub-step
KillConditionHeld(t) ==
    /\ t.interceptorId # NoId
    /\ t.interceptorPos # << >>
    /\ \E rawMs \in FrameMs :
          distanceTo(NextInterceptorPos(t, t.current, systems, rawMs,
                                        speedMultiplier),
                     t.current) < killRadius(t, speedMultiplier)

\* an impact explosion at the target and a danger entry are added
ImpactEmitted(i) ==
    /\ Appended(LogEntry("danger", "impact", threats[i].id))
    /\ \E n \in (Len(explosions) + 1)..Len(explosions') :
          /\ explosions'[n].type = "impact"
          /\ explosions'[n].pos = threats[i].target

\* C20 (as stated): a MOVING threat whose new position is within the impact
\* threshold of its target is IMPACTED in that sub-step, bound or not and
\* whether or not the kill condition holds: no threat ends a sub-step
\* within the threshold MOVING or INTERCEPTED.
C20_ImpactWheneverWithinThreshold ==
    [][\A i \in 1..Len(threats) :
          i <= Len(threats') => ~EndsWithinThreshold(i)]_vars

\* C20 (amended): a MOVING threat whose new position is within the impact
\* threshold is IMPACTED at its target with an impact event, bound or
\* not, unless its interceptor satisfies the kill condition in that
\* sub-step: then it is INTERCEPTED at the new position and no impact is
\* emitted.
C20_ImpactUnlessKilled ==
    [][\A i \in 1..Len(threats) :
          i <= Len(threats') =>
              /\ EndsWithinThreshold(i) =>
                    /\ threats'[i].status = "INTERCEPTED"
                    /\ KillConditionHeld(threats'[i])
                    /\ ~Appended(LogEntry("danger", "impact", threats[i].id))
              /\ NewlyImpacted(i) =>
                    /\ threats'[i].current = threats[i].target
                    /\ ImpactEmitted(i)]_vars

\* a threat bound to an interceptor has impacted at its target, and
\* another has been intercepted within the impact threshold of its target
C20_Witness ==
    /\ \E i \in 1..Len(threats) :
          /\ threats[i].status = "IMPACTED"
          /\ threats[i].interceptorId # NoId
          /\ threats[i].current = threats[i].target
    /\ \E i \in 1..Len(threats) :
          /\ threats[i].status = "INTERCEPTED"
          /\ distanceTo(threats[i].current, threats[i].target)
                < impactThreshold(speedMultiplier)
    /\ \E n \in 1..Len(logs) : logs[n].type = "danger"

(***************************************************************************)
(* The batch evaluator: the StressTest component with a radar at Jaffna    *)
(* and a short-range interceptor at Colombo.                               *)
(***************************************************************************)
\* positions of the rounds slider explored, of 1..1000
MaxRounds == 2

\* positions of the missiles-per-round slider explored, of 1..100
MaxMissilesPerRound == 2

\* a YLC-18 radar at Jaffna and an Iron Beam at Colombo
BatchSystems ==
    << [id |-> "R1", lat |-> 96615000, lng |-> 800104000, role |-> "RADAR",
        range |-> 250, shotSpeed |-> 0, isActive |-> "true"],
       [id |-> "I1", lat |-> 69271000, lng |-> 798612000, role |-> "INTERCEPTOR",
        range |-> 7, shotSpeed |-> 15000, isActive |-> "true"] >>

\* the draws of a trial explored: from the north over Jaffna to Colombo,
\* from the east to Jaffna and from the west to Colombo
TrialDraws ==
    { [side |-> 0, along |-> 200, city |-> 1],
      [side |-> 2, along |-> 950, city |-> 4],
      [side |-> 3, along |-> 270, city |-> 1] }

\* the state of the simulator that the StressTest component leaves alone
simVars ==
    << mounted, active, pending, requestRef, threats, explosions, logs, stats,
       pointAlpha, speedMultiplier, strikeTimers, toggles, clockVars >>

InitBatch ==
    /\ mounted = TRUE
    /\ active = FALSE
    /\ systems = BatchSystems
    /\ pending = {}
    /\ requestRef = 0
    /\ threats = << >>
    /\ explosions = << >>
    /\ logs = << >>
    /\ stats = NoStats
    /\ pointAlpha = << >>
    /\ speedMultiplier = 1
    /\ strikeTimers = 0
    /\ toggles = 0
    /\ geoData = NoGeoData
    /\ scores = calculateScores(systems, geoData)
    /\ InitTools

\* the rounds slider (min 1): setRounds(parseInt(e.target.value))
SetRounds ==
    /\ ~results.present
    /\ \E v \in 1..MaxRounds : v # rounds /\ rounds' = v
    /\ UNCHANGED << missilesPerRound, selectedMissile, isSimulating, results,
                    batchTimer >>
    /\ UNCHANGED << simVars, systems, scoreVars, deployVars >>

\* the missiles-per-round slider (min 1)
SetMissilesPerRound ==
    /\ ~results.present
    /\ \E v \in 1..MaxMissilesPerRound :
          v # missilesPerRound /\ missilesPerRound' = v
    /\ UNCHANGED << rounds, selectedMissile, isSimulating, results, batchTimer >>
    /\ UNCHANGED << simVars, systems, scoreVars, deployVars >>

\* a missile type button: setSelectedMissile(m)
SetSelectedMissile ==
    /\ ~results.present
    /\ \E n \in 1..Len(MISSILE_TYPES) :
          MISSILE_TYPES[n] # selectedMissile /\ selectedMissile' = MISSILE_TYPES[n]
    /\ UNCHANGED << rounds, missilesPerRound, isSimulating, results, batchTimer >>
    /\ UNCHANGED << simVars, systems, scoreVars, deployVars >>

\* the run button (disabled while isSimulating): setIsSimulating(true) and
\* setTimeout of the computation, whose closure holds the systems, rounds,
\* missilesPerRound and selectedMissile of this render
runBatchTest ==
    /\ ~results.present
    /\ ~isSimulating
    /\ isSimulating' = TRUE
    /\ batchTimer' = [present |-> TRUE, systems |-> systems, rounds |-> rounds,
                      missilesPerRound |-> missilesPerRound,
                      selectedMissile |-> selectedMissile]
    /\ UNCHANGED << rounds, missilesPerRound, selectedMissile, results >>
    /\ UNCHANGED << simVars, systems, scoreVars, deployVars >>

\* the timeout callback: every trial, then setResults and
\* setIsSimulating(false)
BatchTimeout ==
    /\ batchTimer.present
    /\ \E draws \in [1..(batchTimer.rounds * batchTimer.missilesPerRound)
                        -> TrialDraws] :
          results' = runBatch(batchTimer, draws)
    /\ isSimulating' = FALSE
    /\ batchTimer' = NoBatchTimer
    /\ UNCHANGED << rounds, missilesPerRound, selectedMissile >>
    /\ UNCHANGED << simVars, systems, scoreVars, deployVars >>

\* the button under the results: setResults(null)
ResetResults ==
    /\ results.present
    /\ results' = NoResults
    /\ UNCHANGED << rounds, missilesPerRound, selectedMissile, isSimulating,
                    batchTimer >>
    /\ UNCHANGED << simVars, systems, scoreVars, deployVars >>

NextBatch ==
    \/ SetRounds
    \/ SetMissilesPerRound
    \/ SetSelectedMissile
    \/ runBatchTest
    \/ BatchTimeout
    \/ ResetResults
    \/ ToggleSystem

SpecBatch == InitBatch /\ [][NextBatch]_vars

\* the timeout callback of runBatchTest runs in this step
BatchRan == batchTimer.present /\ ~batchTimer'.present

\* C13: whatever the draws, a batch run launches rounds x missilesPerRound
\* trials and counts each of them exactly once, as intercepted or as
\* impacted.
C13_EveryTrialCountedOnce ==
    [][BatchRan =>
          /\ results'.present
          /\ results'.totalLaunched
                = batchTimer.rounds * batchTimer.missilesPerRound
          /\ results'.intercepted + results'.impacted = results'.totalLaunched]_vars

\* four trials: one detected and hit, one detected and missed, two
\* undetected
C13_Witness ==
    /\ results.present
    /\ results.totalLaunched = 4
    /\ results.intercepted = 1
    /\ results.impacted = 3
    /\ results.detectionRate = 50000

PlacementStrategies == {"inside", "outside", "any"}

\* the draws of a placement attempt explored: near Dondra Head at the
\* southern edge of its square, at Colombo, and the centre of the box
GenDraws ==
    { [roll |-> 900, pick |-> 5, a |-> 0,   b |-> 500],
      [roll |-> 500, pick |-> 1, a |-> 500, b |-> 500],
      [roll |-> 100, pick |-> 1, a |-> 500, b |-> 500] }

\* the draws of mutateUnit explored: no mutation; a mutation under high
\* entropy only; a relocation under high entropy and a drift otherwise; a
\* drift to the south-west
MutDraws ==
    { [roll |-> 900, jump |-> 500, a |-> 500, b |-> 500],
      [roll |-> 300, jump |-> 500, a |-> 0,   b |-> 999],
      [roll |-> 100, jump |-> 50,  a |-> 200, b |-> 800],
      [roll |-> 100, jump |-> 500, a |-> 0,   b |-> 0] }

InitDeploy ==
    /\ mounted = TRUE
    /\ active = FALSE
    /\ systems = << >>
    /\ pending = {}
    /\ requestRef = 0
    /\ threats = << >>
    /\ explosions = << >>
    /\ logs = << >>
    /\ stats = NoStats
    /\ pointAlpha = << >>
    /\ speedMultiplier = 1
    /\ strikeTimers = 0
    /\ toggles = 0
    /\ geoData = NoGeoData
    /\ scores = calculateScores(systems, geoData)
    /\ InitTools

\* the first layout of a search: one radar and one interceptor placed by
\* generateRandomDeploymentWithCounts
Generate ==
    /\ generation = 0
    /\ generation' = 1
    /\ \E placementStrategy \in PlacementStrategies :
          \E draws \in [1..Len(GenTemplates) -> [1..MaxAttempts -> GenDraws]] :
             systems' = generateRandomDeploymentWithCounts(placementStrategy,
                                                           geoData, draws)
    /\ scores' = calculateScores(systems', geoData)
    /\ UNCHANGED << simVars, geoData, batchVars, mutation >>

\* mutateDeployment is called on the deployment
Mutate ==
    /\ systems # << >>
    /\ \E radarSecured \in BOOLEAN, forceHighEntropy \in BOOLEAN :
          \E draws \in [1..Len(systems) -> MutDraws] :
             mutation' = [present |-> TRUE, base |-> systems,
                          radarSecured |-> radarSecured,
                          forceHighEntropy |-> forceHighEntropy,
                          result |-> mutateDeployment(systems, radarSecured,
                                                      forceHighEntropy, draws)]
    /\ UNCHANGED << simVars, systems, scoreVars, batchVars, generation >>

\* the layout mutateDeployment returned becomes the deployment
Adopt ==
    /\ mutation.present
    /\ generation < MaxGenerations
    /\ generation' = generation + 1
    /\ systems' = mutation.result
    /\ scores' = calculateScores(systems', geoData)
    /\ mutation' = NoMutation
    /\ UNCHANGED << simVars, geoData, batchVars >>

NextDeploy ==
    \/ Generate
    \/ Mutate
    \/ Adopt
    \/ ToggleSystem

SpecDeploy == InitDeploy /\ [][NextDeploy]_vars

\* the position of a unit lies within SL_BOUNDS
InBox(sys) ==
    /\ SL_BOUNDS.minLat <= sys.lat /\ sys.lat <= SL_BOUNDS.maxLat
    /\ SL_BOUNDS.minLng <= sys.lng /\ sys.lng <= SL_BOUNDS.maxLng

SamePlace(a, b) == a.lat = b.lat /\ a.lng = b.lng

\* C15: every unit of a layout returned by mutateDeployment lies within
\* the bounding box, the units left unchanged included.
C15_MutatedLayoutInBox ==
    mutation.present =>
        \A n \in 1..Len(mutation.result) : InBox(mutation.result[n])

\* C16: mutateDeployment changes nothing but positions: the layout returned
\* has the length and order of the input, each unit keeps its id, role,
\* range, shotSpeed and isActive, and the input layout is left as it was.
C16_OnlyPositionsChange ==
    [][mutation'.present /\ mutation' # mutation =>
          /\ systems' = systems
          /\ mutation'.base = systems
          /\ Len(mutation'.result) = Len(systems)
          /\ \A n \in 1..Len(systems) :
                mutation'.result[n]
                    = [systems[n] EXCEPT !.lat = mutation'.result[n].lat,
                                         !.lng = mutation'.result[n].lng]]_vars

\* a unit that is switched off was moved
C16_Witness ==
    /\ mutation.present
    /\ \E n \in 1..Len(mutation.base) :
          /\ mutation.base[n].isActive = "false"
          /\ ~SamePlace(mutation.result[n], mutation.base[n])

\* C17: with radarSecured set and forceHighEntropy not set, every RADAR unit
\* keeps its position whatever the draws.
C17_SecuredRadarsStay ==
    mutation.present /\ mutation.radarSecured /\ ~mutation.forceHighEntropy =>
        \A n \in 1..Len(mutation.base) :
            mutation.base[n].role = "RADAR"
                => SamePlace(mutation.result[n], mutation.base[n])

\* radars secured, no high entropy: the interceptor was moved and the radar
\* was not
C17_Witness ==
    /\ mutation.present /\ mutation.radarSecured /\ ~mutation.forceHighEntropy
    /\ \E n \in 1..Len(mutation.base) :
          /\ mutation.base[n].role = "RADAR"
          /\ SamePlace(mutation.result[n], mutation.base[n])
    /\ \E n \in 1..Len(mutation.base) :
          /\ mutation.base[n].role = "INTERCEPTOR"
          /\ ~SamePlace(mutation.result[n], mutation.base[n])

\* radars secured and high entropy forced: a radar was moved
C17_ForcedRadarMoved ==
    /\ mutation.present /\ mutation.radarSecured /\ mutation.forceHighEntropy
    /\ \E n \in 1..Len(mutation.base) :
          /\ mutation.base[n].role = "RADAR"
          /\ ~SamePlace(mutation.result[n], mutation.base[n])

(***************************************************************************)
(* The conditions of a binding, checked under Spec.                        *)
(***************************************************************************)
\* the position the sub-step moves threat t to (lines 187-191)
NewPosition(t, rawMs) ==
    Advance(t.current, Bearing(t.start, t.target),
            StepLen(t.speed, rawMs, speedMultiplier))

\* threat t, unbound, is bound to unit u by the detection and assignment
\* of a sub-step that moves it to nextPos and leaves it as b: an active
\* radar covers nextPos, u is an active interceptor with the predicted
\* point within its range of its base, and the pursuit starts at the base
BoundRightly(t, u, b, nextPos) ==
    /\ SomeInRange(nextPos, "RADAR")
    /\ t.interceptorId = NoId
    /\ u.role = "INTERCEPTOR"
    /\ IsActive(u)
    /\ b.interceptorId = u.id
    /\ b.detectedByRadarId # NoId
    /\ b.interceptorPos = << SysPos(u) >>
    /\ b.predictedInterceptPoint # << >>
    /\ InRange(b.predictedInterceptPoint[1], u)

\* sub-step k + 1 of the tick binds threat i as BoundRightly has it
BindingAt(i, k, rawMs) ==
    BoundRightly(AfterSubsteps(k, rawMs)[i],
                 UnitOfId(threats'[i].interceptorId),
                 DetectAndBind(AfterSubsteps(k, rawMs)[i],
                               NewPosition(AfterSubsteps(k, rawMs)[i], rawMs),
                               systems).threat,
                 NewPosition(AfterSubsteps(k, rawMs)[i], rawMs))

\* a bound threat has a detecting radar on record and a predicted intercept
\* point within the range of its interceptor's base
BoundThreatsAreCovered ==
    \A i \in 1..Len(threats) :
        threats[i].interceptorId # NoId =>
            /\ threats[i].detectedByRadarId # NoId
            /\ threats[i].interceptorPos # << >>
            /\ threats[i].predictedInterceptPoint # << >>
            /\ InRange(threats[i].predictedInterceptPoint[1],
                       UnitOfId(threats[i].interceptorId))

\* C21: a threat is bound only in a sub-step in which an active radar covers
\* its new position and it was unbound, and only to an active interceptor
\* whose predicted intercept point is within its range of its base, the
\* pursuit starting at the base; so every bound threat has a detecting
\* radar and a predicted point within range of its interceptor's base.
C21_BindingNeedsDetectionAndReach ==
    /\ []BoundThreatsAreCovered
    /\ [][\A i \in 1..Len(threats) :
             (i <= Len(threats') /\ NewlyBound(i)) =>
                 \A rawMs \in FrameMs :
                     \A k \in 0..(Substeps(speedMultiplier) - 1) :
                         BoundInSubstep(i, k, rawMs) => BindingAt(i, k, rawMs)]_vars

\* a moving threat is bound to I1 while the faster I2, whose range the
\* predicted point is outside of, is active
C21_Witness ==
    \E i \in 1..Len(threats) :
        /\ threats[i].status = "MOVING"
        /\ threats[i].interceptorId = "I1"
        /\ threats[i].detectedByRadarId = "R1"
        /\ threats[i].predictedInterceptPoint # << >>
        /\ InRange(threats[i].predictedInterceptPoint[1], UnitOfId("I1"))
        /\ threats[i].interceptorPos # << >>

(***************************************************************************)
(* The division of a tick into sub-steps, checked under Spec.              *)
(***************************************************************************)
\* the values of the speed buttons: [1, 5, 10, 25, 100].map(s => ...)
SpeedButtons == {1, 5, 10, 25, 100}

\* the largest acceleration factor the count of sub-steps is computed for
MaxAcceleration == 450

\* n is min(1000, ceil(a * 2.5)), said without the model's operators: the
\* least whole number that is at least a * 2.5, or 1000 when that is less
IsClaimedCount(n, a) ==
    \/ 2 * n >= 5 * a /\ 2 * (n - 1) < 5 * a /\ n <= 1000
    \/ n = 1000 /\ 2 * n < 5 * a

\* n steps of the length of one sub-step make up speed * rawDeltaTime *
\* currentSpeed, to the rounding of one unit (1e-7 degrees) per sub-step
SumsToElapsed(n, speed, rawMs, a) ==
    2 * Abs(n * StepLen(speed, rawMs, a) - speed * rawMs * a) <= n

CountIsClaimed ==
    \A a \in SpeedButtons \cup (1..MaxAcceleration) :
        /\ Substeps(a) >= 1
        /\ Substeps(a) <= 1000
        /\ IsClaimedCount(Substeps(a), a)
        /\ \A rawMs \in FrameMs, speed \in LaunchSpeeds :
              a \in SpeedButtons => SumsToElapsed(Substeps(a), speed, rawMs, a)

\* a step of the tick that moves a threat
TickMoves == Len(threats') = Len(threats) /\ threats' # threats

\* C22: a tick runs min(1000, ceil(acceleration * 2.5)) sub-steps of equal
\* simulated duration, which sum to elapsed time * acceleration; the count
\* is at least 1 and at most 1000 for every positive acceleration factor.
C22_TickSplitInEqualSubsteps ==
    /\ []CountIsClaimed
    /\ [][TickMoves =>
            \E rawMs \in FrameMs : \E n \in 1..SubstepCap :
                /\ IsClaimedCount(n, speedMultiplier)
                /\ threats' = AfterSubsteps(n, rawMs)
                /\ \A i \in 1..Len(threats) :
                      SumsToElapsed(n, threats[i].speed, rawMs, speedMultiplier)]_vars

C22_Witness ==
    /\ speedMultiplier = 5
    /\ \E i \in 1..Len(threats) :
          /\ threats[i].status = "MOVING"
          /\ threats[i].interceptorId = NoId
          /\ threats[i].current # threats[i].start

(***************************************************************************)
(* Ticks after a long frame.  rawDeltaTime is the time since the previous  *)
(* callback of requestAnimationFrame, with no upper limit in the code: the *)
(* browser runs no callback while the page is hidden, and the first one    *)
(* after that sees the whole pause.                                        *)
(***************************************************************************)
\* rawDeltaTime of a tick after a pause of two seconds, in milliseconds
LongFrameMs == {2000}

LongTick ==
    /\ WithinHorizon
    /\ \E id \in pending, rawMs \in LongFrameMs : TickBody(id, rawMs)

NextLongFrame ==
    \/ Activate
    \/ Deactivate
    \/ LangChange
    \/ Unmount
    \/ LongTick
    \/ Click
    \/ launchRandomStrike
    \/ StrikeTimer
    \/ SetSpeed
    \/ ToggleSystem

SpecLongFrame == Init /\ [][NextLongFrame]_vars

\* the threat has flown over its target and is further behind it than the
\* impact threshold: on its fixed bearing every further sub-step takes it
\* further from the target
Beyond(t) ==
    distanceTo(t.start, t.current) >=
        distanceTo(t.start, t.target) + impactThreshold(speedMultiplier)

\* C23: no MOVING threat jumps across the impact threshold around its
\* target in one sub-step, whatever the elapsed time of the tick and the
\* acceleration factor, so that every threat can still end IMPACTED (or
\* INTERCEPTED) while ticks keep arriving.
C23_NoThreatJumpsItsTarget ==
    \A i \in 1..Len(threats) :
        threats[i].status = "MOVING" => ~Beyond(threats[i])

\* a threat that is beyond its target is not marked IMPACTED by any step
C23_BeyondNeverImpacts ==
    [][\A i \in 1..Len(threats) :
          (/\ i <= Len(threats')
           /\ threats[i].status = "MOVING"
           /\ Beyond(threats[i]))
          => threats'[i].status # "IMPACTED"]_vars

\* C24: a tick leaves the records of the previous snapshot as they were,
\* and the same update applied a second time to the same previous snapshot
\* gives the same next threats and the same counter increments.
C24_TickLeavesSnapshotAlone ==
    [][TickMoves =>
          \E rawMs \in FrameMs :
              /\ threats' = UpdateThreats(threats, systems, rawMs,
                                          speedMultiplier).threats
              /\ PrevAfterUpdate(threats, systems, rawMs, speedMultiplier)
                     = threats
              /\ SecondUpdate(threats, systems, rawMs, speedMultiplier)
                     = UpdateThreats(threats, systems, rawMs, speedMultiplier)]_vars

\* a tick whose records still read MOVING in the previous snapshot although
\* the tick has counted an intercept: run again it counts it again
C24_CountedTwice ==
    [][TickMoves =>
          \A rawMs \in FrameMs :
              UpdateThreats(threats, systems, rawMs, speedMultiplier).intercepted
                  + SecondUpdate(threats, systems, rawMs,
                                 speedMultiplier).intercepted < 2]_vars

(***************************************************************************)
(* The explosions effect (lines 281-288), with the time made explicit:     *)
(*   useEffect(() => {                                                     *)
(*     if (explosions.length > 0) {                                        *)
(*       const timer = setTimeout(() => setExplosions(prev => prev.filter( *)
(*         e => !explosions.some(ex => ex.id === e.id))), 2000);           *)
(*       return () => clearTimeout(timer);                                 *)
(*     }                                                                   *)
(*   }, [explosions]);                                                     *)
(* `born` maps the id of an explosion to the time of its creation.         *)
(***************************************************************************)
\* the delay of the timer, in milliseconds
ExplosionTtlMs == 2000

\* the time explored, in milliseconds
MaxClockMs == 2600

\* the timer after the effect has run for the explosions `shown` at `time`:
\* the cleanup has cleared the timer of the run before, and a new one is
\* set, with these explosions in its closure, when there are any
ExplosionsEffect(shown, time) ==
    IF Len(shown) > 0
    THEN [present |-> TRUE, due |-> time + ExplosionTtlMs,
          ids |-> {shown[k].id : k \in 1..Len(shown)}]
    ELSE [present |-> FALSE]

\* the explosions effect after a tick whose updater gave `r`: the effect
\* runs only when setExplosions has been called
TimerAfterTick(r) ==
    /\ born' = [e \in DOMAIN born \cup {r.explosions[k].id : k \in 1..Len(r.explosions)} |->
                   IF e \in DOMAIN born THEN born[e] ELSE now']
    /\ explosionTimer' = IF r.explosions = << >> THEN explosionTimer
                         ELSE ExplosionsEffect(explosions', now')

\* the animation frame that comes rawMs after the one before; a timer that
\* is due runs first
TimedTick ==
    /\ now < MaxClockMs
    /\ explosionTimer.present => now < explosionTimer.due
    /\ \E id \in pending, rawMs \in FrameMs :
          \E r \in {UpdateThreats(threats, systems, rawMs, speedMultiplier)} :
              /\ ~r.thrown
              /\ now' = now + rawMs
              /\ TickUpdates(id, r)
              /\ TimerAfterTick(r)
    /\ UNCHANGED << scoreVars, batchVars, deployVars >>

\* the callback of the timer, and the effect run again for what is left
ExplosionTimeout ==
    /\ mounted
    /\ explosionTimer.present
    /\ now >= explosionTimer.due
    /\ explosions' = SelectSeq(explosions,
                               LAMBDA e : e.id \notin explosionTimer.ids)
    /\ born' = [e \in DOMAIN born \ explosionTimer.ids |-> born[e]]
    /\ explosionTimer' = ExplosionsEffect(explosions', now)
    /\ UNCHANGED << mounted, active, systems, pending, requestRef, threats,
                    logs, stats, pointAlpha, speedMultiplier, strikeTimers,
                    toggles, now >>
    /\ UNCHANGED << scoreVars, batchVars, deployVars >>

NextExplosions ==
    \/ Activate
    \/ Click
    \/ TimedTick
    \/ ExplosionTimeout

SpecExplosions == Init /\ [][NextExplosions]_vars

\* C25: every explosion is removed 2000 ms after its creation, whatever
\* other explosions are created or removed in the meantime: none is in the
\* collection at a later time.
C25_ExplosionLivesTwoSeconds ==
    \A k \in 1..Len(explosions) :
        now - born[explosions[k].id] <= ExplosionTtlMs

(***************************************************************************)
(* Launches that arrive after a deactivation, checked under Spec.          *)
(***************************************************************************)
\* C26: while the simulation is inactive the threats stay empty and the
\* launched counter stays 0, also when timers of a random strike were
\* still to run at the deactivation: no launch scheduled before the reset
\* takes effect after it.
C26_InactiveStaysEmpty ==
    (mounted /\ ~active) => (threats = << >> /\ stats.launched = 0)

====
